---- MODULE Spec2Model ----
(***************************************************************************)
(* Visual QTE (Foundry VTT module): the dispatcher VisualQTE.trigger, the  *)
(* socket transport, and the client engine QTEOverlay (sequence mode and   *)
(* mash mode), modelled from src/unnamed/part_001.                         *)
(*                                                                         *)
(* Each connected user runs one page.  A page is a record holding the      *)
(* static fields of class QTEOverlay together with what the engine leaves  *)
(* in its browser: the keydown listeners on document, the pending          *)
(* setTimeout timers, the pending requestAnimationFrame callbacks, the     *)
(* #qte-overlay elements and the chat messages it created.  A method of    *)
(* the class is an operator from page to page; an action is one task of    *)
(* the page's event loop (a socket message, a key event, a timer, a        *)
(* frame) and runs its handler to completion.                              *)
(*                                                                         *)
(* Time is Date.now() in milliseconds, advanced in steps of Quantum.       *)
(* mashProgress is kept in units of 1/Scale and hitTime in units of        *)
(* 1/HitScale ms so that the code's real arithmetic stays exact.           *)
(* Chat and tier texts are written in English for the code's Chinese       *)
(* strings: tiers "Perfect", "Good", "Miss-timing", "Wrong-input",         *)
(* "Timeout"; verdicts "Failed", "Flawless", "All Clear", "Cleared"; mash  *)
(* outcomes "Breakthrough", "Suppressed", "Time's up".                     *)
(***************************************************************************)
EXTENDS Integers, Sequences, FiniteSets, TLC

VARIABLES now, connected, pool, qteSocket, triggers, notices, calls, inbox, page

vars == <<now, connected, pool, qteSocket, triggers, notices, calls, inbox, page>>

(***************************************************************************)
(* Bounds of the model.                                                    *)
(***************************************************************************)
\* Date.now() advances by this many milliseconds per Tick.
Quantum == 100
\* A due timer, frame callback or socket message may still be waiting when
\* Date.now() is less than this past its due time, and no later.
MaxLate == 0
\* Number of calls of VisualQTE.trigger in one behaviour.
MaxTriggers == 2
\* Math.random() returns k / RandomDen, k in 0 .. RandomDen - 1; a random stream is
\* the sequence of the k it returns to one call of trigger.
RandomDen == 27
RandomStreams == { <<0, 0, 26, 26>>, <<26, 26, 0, 0>> }

Users == {"gm", "p1"}
isGM(u) == u = "gm"

\* The keydown events the player can produce.
KeyCodes == {"KeyA", "KeyB", "Space"}
Modifiers == {"ctrl", "alt", "meta", "shift"}
KeyEvent(k, r, m) ==
    [code |-> k, repeat |-> r, ctrlKey |-> (m = "ctrl"), altKey |-> (m = "alt"),
     metaKey |-> (m = "meta"), shiftKey |-> (m = "shift")]
\* A plain press of each key, an auto-repeat of the two keys the prompts and the
\* mash bar ask for, and the first key with each modifier held.
KeyEvents ==
    { KeyEvent(k, FALSE, "none") : k \in KeyCodes }
        \cup { KeyEvent(k, TRUE, "none") : k \in {"KeyA", "Space"} }
        \cup { KeyEvent("KeyA", FALSE, m) : m \in Modifiers }

(***************************************************************************)
(* Program constants.                                                      *)
(***************************************************************************)
NoId == -1
Scale == 1000
HoldDelay == 800
FadeDelay == 200
BlockDelay == 1500
MashResultDelay == 1500
MashFadeDelay == 300
InitialProgress == 50
WinProgress == 100
HitScale == 10 * RandomDen
\* requestAnimationFrame runs its callback at the next frame.
FramePeriod == Quantum

Chars == << "A", "B", "C", "D", "E", "F", "G", "H", "I", "J", "K", "L", "M",
            "N", "O", "P", "Q", "R", "S", "T", "U", "V", "W", "X", "Y", "Z", " " >>

Defaults ==
    [title |-> "", mode |-> "sequence", count |-> 3, duration |-> 2500,
     windowSize |-> 300, mashDecay |-> 30, mashDuration |-> 10, mashPower |-> 6,
     gmPlay |-> TRUE, targetIds |-> <<>>]

(***************************************************************************)
(* Helpers.                                                                *)
(***************************************************************************)
Abs(x) == IF x < 0 THEN -x ELSE x

Range(s) == { s[i] : i \in DOMAIN s }

RemoveId(s, id) == SelectSeq(s, LAMBDA x : x.id # id)

\* The handles in use on a page: those of installed listeners and pending
\* callbacks, and those still held in a field.  A new handle is never one of them.
UsedIds(c) ==
    { x.id : x \in Range(c.listeners) } \cup { x.id : x \in Range(c.timers) }
        \cup { x.id : x \in Range(c.frames) }
        \cup { x.ref : x \in { t \in Range(c.timers) : t.kind = "unblock" } }
        \cup { c.timeoutId, c.mashLoopId, c.boundHandleKey }

SmallestAbsent(used) ==
    CHOOSE n \in 0 .. Cardinality(used) :
        n \notin used /\ \A m \in 0 .. (n - 1) : m \in used

\* The set quantifiers make TLC compute the page and its handles once.
FreshId(c) ==
    CHOOSE n \in { SmallestAbsent(used) : used \in { UsedIds(x) : x \in {c} } } : TRUE

\* $('#qte-overlay').remove(): jQuery's id selector matches the first element.
removeOverlay(c) == [c EXCEPT !.overlays = IF @ > 0 THEN @ - 1 ELSE 0]

\* ChatMessage.create: the message, and whether isActive was set when it was posted.
ChatMessageCreate(c, msg) ==
    [c EXCEPT !.chat = Append(@, [msg EXCEPT !.active = c.isActive])]

PageInit ==
    [isActive |-> FALSE, mode |-> "null", title |-> "", sequence |-> <<>>,
     currentIndex |-> 0, results |-> <<>>, timeoutId |-> NoId, startTime |-> 0,
     mashProgress |-> InitialProgress * Scale, mashDecay |-> 20, mashPower |-> 6,
     mashLoopId |-> NoId, lastFrameTime |-> 0, mashEndTime |-> 0,
     boundHandleKey |-> NoId,
     listeners |-> <<>>, timers |-> <<>>, frames |-> <<>>, overlays |-> 0,
     chat |-> <<>>, sessions |-> 0, clears |-> 0]

(***************************************************************************)
(* Sequence mode.                                                          *)
(***************************************************************************)
CountClass(results, cls) ==
    Cardinality({ i \in DOMAIN results : results[i].ratingClass = cls })

\* A strict variant of the test: fails < 30%.
FailRatioOkStrict(fails, totalCount) == totalCount # 0 /\ 10 * fails < 3 * totalCount

\* failRatio <= 0.3 with failRatio = fails / totalCount: 0 / 0 is NaN, and every
\* comparison with NaN is false.
FailRatioOk(fails, totalCount) == totalCount # 0 /\ 10 * fails <= 3 * totalCount

Verdict(perfects, fails, totalCount) ==
    IF FailRatioOk(fails, totalCount)
    THEN IF fails = 0
         THEN IF perfects = totalCount THEN "Flawless" ELSE "All Clear"
         ELSE "Cleared"
    ELSE "Failed"

\* A variant of finishSequence that leaves isActive set.
finishSequenceKeepFlag(c) ==
    LET perfects == CountClass(c.results, "result-perfect")
        goods == CountClass(c.results, "result-good")
        fails == Len(c.results) - perfects - goods
        baseTitle == IF c.title # "" THEN c.title ELSE "Challenge"
        totalCount == Len(c.results)
    IN  ChatMessageCreate(c,
            [kind |-> "sequence", title |-> baseTitle,
             verdict |-> Verdict(perfects, fails, totalCount),
             perfects |-> perfects, goods |-> goods, fails |-> fails,
             rows |-> c.results, session |-> c.sessions, active |-> FALSE])

\* A variant of finishSequence that starts the session over when it ends.
finishSequenceRestart(c) ==
    LET c1 == [c EXCEPT !.sessions = @ + 1, !.clears = @ + 1]
        perfects == CountClass(c1.results, "result-perfect")
        goods == CountClass(c1.results, "result-good")
        fails == Len(c1.results) - perfects - goods
        baseTitle == IF c1.title # "" THEN c1.title ELSE "Challenge"
        totalCount == Len(c1.results)
    IN  ChatMessageCreate(c1,
            [kind |-> "sequence", title |-> baseTitle,
             verdict |-> Verdict(perfects, fails, totalCount),
             perfects |-> perfects, goods |-> goods, fails |-> fails,
             rows |-> c1.results, session |-> c.sessions, active |-> FALSE])

finishSequence(c) ==
    LET c1 == [c EXCEPT !.isActive = FALSE, !.clears = @ + 1]
        perfects == CountClass(c1.results, "result-perfect")
        goods == CountClass(c1.results, "result-good")
        fails == Len(c1.results) - perfects - goods
        baseTitle == IF c1.title # "" THEN c1.title ELSE "Challenge"
        totalCount == Len(c1.results)
    IN  ChatMessageCreate(c1,
            [kind |-> "sequence", title |-> baseTitle,
             verdict |-> Verdict(perfects, fails, totalCount),
             perfects |-> perfects, goods |-> goods, fails |-> fails,
             rows |-> c1.results, session |-> c1.sessions, active |-> FALSE])

\* A variant of playNextSequence that starts no timeout.
playNextSequenceNoTimeout(c, t) ==
    IF c.currentIndex >= Len(c.sequence)
    THEN finishSequence(c)
    ELSE LET data == c.sequence[c.currentIndex + 1]
             c1 == [removeOverlay(c) EXCEPT !.overlays = @ + 1]
             lid == FreshId(c1)
             c2 == [c1 EXCEPT !.boundHandleKey = lid,
                              !.listeners = Append(@, [id |-> lid, kind |-> "sequence",
                                                       data |-> data])]
         IN  [c2 EXCEPT !.startTime = t]

playNextSequence(c, t) ==
    IF c.currentIndex >= Len(c.sequence)
    THEN finishSequence(c)
    ELSE LET data == c.sequence[c.currentIndex + 1]
             c1 == [removeOverlay(c) EXCEPT !.overlays = @ + 1]
             lid == FreshId(c1)
             c2 == [c1 EXCEPT !.boundHandleKey = lid,
                              !.listeners = Append(@, [id |-> lid, kind |-> "sequence",
                                                       data |-> data])]
             tid == FreshId(c2)
         IN  [c2 EXCEPT !.startTime = t, !.timeoutId = tid,
                        !.timers = Append(@, [id |-> tid, kind |-> "stepTimeout",
                                              due |-> t + data.duration, data |-> data])]

\* A variant of resolveSequenceStep that leaves the step's key listener installed.
resolveSequenceStepKeepListener(c, success, text, cssClass, data, diff, t) ==
    LET c1 == [c EXCEPT !.timers = RemoveId(@, c.timeoutId)]
        c2 == [c1 EXCEPT !.results = Append(@, [key |-> data.keyDisplay,
                                                success |-> success, ratingText |-> text,
                                                ratingClass |-> cssClass, diff |-> diff])]
    IN  [c2 EXCEPT !.timers = Append(@, [id |-> FreshId(c2), kind |-> "hold",
                                         due |-> t + HoldDelay])]

\* A variant of resolveSequenceStep that does not cancel the step's timeout.
resolveSequenceStepKeepTimeout(c, success, text, cssClass, data, diff, t) ==
    LET c1 == [c EXCEPT !.listeners = RemoveId(@, c.boundHandleKey)]
        c2 == [c1 EXCEPT !.results = Append(@, [key |-> data.keyDisplay,
                                                success |-> success, ratingText |-> text,
                                                ratingClass |-> cssClass, diff |-> diff])]
    IN  [c2 EXCEPT !.timers = Append(@, [id |-> FreshId(c2), kind |-> "hold",
                                         due |-> t + HoldDelay])]

resolveSequenceStep(c, success, text, cssClass, data, diff, t) ==
    LET c1 == [c EXCEPT !.listeners = RemoveId(@, c.boundHandleKey),
                        !.timers = RemoveId(@, c.timeoutId)]
        c2 == [c1 EXCEPT !.results = Append(@, [key |-> data.keyDisplay,
                                                success |-> success, ratingText |-> text,
                                                ratingClass |-> cssClass, diff |-> diff])]
    IN  [c2 EXCEPT !.timers = Append(@, [id |-> FreshId(c2), kind |-> "hold",
                                         due |-> t + HoldDelay])]

\* A variant of handleSequenceKey whose window tests are strict.
handleSequenceKeyStrict(c, event, data, t) ==
    IF event.repeat \/ event.ctrlKey \/ event.altKey \/ event.metaKey
    THEN c
    ELSE IF event.code = data.targetKey
         THEN LET elapsed == t - c.startTime
                  diff == Abs(elapsed * HitScale - data.hitTime)
              IN  IF 5 * diff < data.windowSize * HitScale
                  THEN resolveSequenceStep(c, TRUE, "Perfect", "result-perfect", data, diff, t)
                  ELSE IF 2 * diff < data.windowSize * HitScale
                       THEN resolveSequenceStep(c, TRUE, "Good", "result-good", data, diff, t)
                       ELSE resolveSequenceStep(c, FALSE, "Miss-timing", "result-bad",
                                                data, diff, t)
         ELSE resolveSequenceStep(c, FALSE, "Wrong-input", "result-bad", data, 0, t)

\* A variant of handleSequenceKey without the test of event.repeat.
handleSequenceKeyNoRepeatTest(c, event, data, t) ==
    IF event.ctrlKey \/ event.altKey \/ event.metaKey
    THEN c
    ELSE IF event.code = data.targetKey
         THEN LET elapsed == t - c.startTime
                  diff == Abs(elapsed * HitScale - data.hitTime)
              IN  IF 5 * diff <= data.windowSize * HitScale
                  THEN resolveSequenceStep(c, TRUE, "Perfect", "result-perfect", data, diff, t)
                  ELSE IF 2 * diff <= data.windowSize * HitScale
                       THEN resolveSequenceStep(c, TRUE, "Good", "result-good", data, diff, t)
                       ELSE resolveSequenceStep(c, FALSE, "Miss-timing", "result-bad",
                                                data, diff, t)
         ELSE resolveSequenceStep(c, FALSE, "Wrong-input", "result-bad", data, 0, t)

\* A variant of handleSequenceKey without the test of event.metaKey.
handleSequenceKeyNoMetaTest(c, event, data, t) ==
    IF event.repeat \/ event.ctrlKey \/ event.altKey
    THEN c
    ELSE IF event.code = data.targetKey
         THEN LET elapsed == t - c.startTime
                  diff == Abs(elapsed * HitScale - data.hitTime)
              IN  IF 5 * diff <= data.windowSize * HitScale
                  THEN resolveSequenceStep(c, TRUE, "Perfect", "result-perfect", data, diff, t)
                  ELSE IF 2 * diff <= data.windowSize * HitScale
                       THEN resolveSequenceStep(c, TRUE, "Good", "result-good", data, diff, t)
                       ELSE resolveSequenceStep(c, FALSE, "Miss-timing", "result-bad",
                                                data, diff, t)
         ELSE resolveSequenceStep(c, FALSE, "Wrong-input", "result-bad", data, 0, t)

\* A variant of handleSequenceKey that records the timing error of a wrong key.
handleSequenceKeyWrongDiff(c, event, data, t) ==
    IF event.repeat \/ event.ctrlKey \/ event.altKey \/ event.metaKey
    THEN c
    ELSE LET elapsed == t - c.startTime
             diff == Abs(elapsed * HitScale - data.hitTime)
         IN  IF event.code = data.targetKey
             THEN IF 5 * diff <= data.windowSize * HitScale
                  THEN resolveSequenceStep(c, TRUE, "Perfect", "result-perfect", data, diff, t)
                  ELSE IF 2 * diff <= data.windowSize * HitScale
                       THEN resolveSequenceStep(c, TRUE, "Good", "result-good", data, diff, t)
                       ELSE resolveSequenceStep(c, FALSE, "Miss-timing", "result-bad",
                                                data, diff, t)
             ELSE resolveSequenceStep(c, FALSE, "Wrong-input", "result-bad", data, diff, t)

\* halfWindow = windowSize / 2 and perfectWindow = halfWindow * 0.4; diff and
\* hitTime are in 1/HitScale ms, so diff <= perfectWindow reads
\* 5 * diff <= windowSize * HitScale, and diff <= halfWindow reads
\* 2 * diff <= windowSize * HitScale.
handleSequenceKey(c, event, data, t) ==
    IF event.repeat \/ event.ctrlKey \/ event.altKey \/ event.metaKey
    THEN c
    ELSE IF event.code = data.targetKey
         THEN LET elapsed == t - c.startTime
                  diff == Abs(elapsed * HitScale - data.hitTime)
              IN  IF 5 * diff <= data.windowSize * HitScale
                  THEN resolveSequenceStep(c, TRUE, "Perfect", "result-perfect", data, diff, t)
                  ELSE IF 2 * diff <= data.windowSize * HitScale
                       THEN resolveSequenceStep(c, TRUE, "Good", "result-good", data, diff, t)
                       ELSE resolveSequenceStep(c, FALSE, "Miss-timing", "result-bad",
                                                data, diff, t)
         ELSE resolveSequenceStep(c, FALSE, "Wrong-input", "result-bad", data, 0, t)

\* The callbacks resolveSequenceStep leaves behind.
holdCallback(c, t) ==
    [c EXCEPT !.timers = Append(@, [id |-> FreshId(c), kind |-> "advance",
                                    due |-> t + FadeDelay])]

\* A variant of advanceCallback that does not remove the overlay.
advanceCallbackKeepOverlay(c, t) ==
    playNextSequence([c EXCEPT !.currentIndex = @ + 1], t)

\* A variant of advanceCallback that does not advance currentIndex.
advanceCallbackNoIncrement(c, t) ==
    playNextSequence(removeOverlay(c), t)

advanceCallback(c, t) ==
    playNextSequence([removeOverlay(c) EXCEPT !.currentIndex = @ + 1], t)

stepTimeoutCallback(c, data, t) ==
    resolveSequenceStep(c, FALSE, "Timeout", "result-bad", data, 0, t)

(***************************************************************************)
(* Mash mode.                                                              *)
(***************************************************************************)
\* A variant of endMash that does not cancel the pending frame callback.
endMashKeepLoop(c, success, text, t) ==
    LET c1 == [c EXCEPT !.listeners = RemoveId(@, c.boundHandleKey)]
        blocker == FreshId(c1)
        c2 == [c1 EXCEPT !.listeners = Append(@, [id |-> blocker, kind |-> "blocker"])]
        c3 == [c2 EXCEPT !.timers = Append(@, [id |-> FreshId(c2), kind |-> "unblock",
                                               due |-> t + BlockDelay, ref |-> blocker])]
        displayTitle == IF c3.title # "" THEN c3.title ELSE "Mash challenge"
        c4 == ChatMessageCreate(c3,
                  [kind |-> "mash", title |-> displayTitle, success |-> success,
                   text |-> text, at |-> t, deadline |-> c3.mashEndTime,
                   session |-> c3.sessions, active |-> FALSE])
    IN  [c4 EXCEPT !.timers = Append(@, [id |-> FreshId(c4), kind |-> "mashResult",
                                         due |-> t + MashResultDelay])]

\* A variant of endMash that leaves the mash key listener installed.
endMashKeepListener(c, success, text, t) ==
    LET c1 == [c EXCEPT !.frames = RemoveId(@, c.mashLoopId)]
        blocker == FreshId(c1)
        c2 == [c1 EXCEPT !.listeners = Append(@, [id |-> blocker, kind |-> "blocker"])]
        c3 == [c2 EXCEPT !.timers = Append(@, [id |-> FreshId(c2), kind |-> "unblock",
                                               due |-> t + BlockDelay, ref |-> blocker])]
        displayTitle == IF c3.title # "" THEN c3.title ELSE "Mash challenge"
        c4 == ChatMessageCreate(c3,
                  [kind |-> "mash", title |-> displayTitle, success |-> success,
                   text |-> text, at |-> t, deadline |-> c3.mashEndTime,
                   session |-> c3.sessions, active |-> FALSE])
    IN  [c4 EXCEPT !.timers = Append(@, [id |-> FreshId(c4), kind |-> "mashResult",
                                         due |-> t + MashResultDelay])]

endMash(c, success, text, t) ==
    LET c1 == [c EXCEPT !.frames = RemoveId(@, c.mashLoopId),
                        !.listeners = RemoveId(@, c.boundHandleKey)]
        blocker == FreshId(c1)
        c2 == [c1 EXCEPT !.listeners = Append(@, [id |-> blocker, kind |-> "blocker"])]
        c3 == [c2 EXCEPT !.timers = Append(@, [id |-> FreshId(c2), kind |-> "unblock",
                                               due |-> t + BlockDelay, ref |-> blocker])]
        displayTitle == IF c3.title # "" THEN c3.title ELSE "Mash challenge"
        c4 == ChatMessageCreate(c3,
                  [kind |-> "mash", title |-> displayTitle, success |-> success,
                   text |-> text, at |-> t, deadline |-> c3.mashEndTime,
                   session |-> c3.sessions, active |-> FALSE])
    IN  [c4 EXCEPT !.timers = Append(@, [id |-> FreshId(c4), kind |-> "mashResult",
                                         due |-> t + MashResultDelay])]

\* A variant of gameLoop whose first test is mashProgress < 0.
gameLoopBelowZero(c, t) ==
    IF ~c.isActive \/ c.mode # "mash"
    THEN c
    ELSE LET deltaMs == t - c.lastFrameTime
             c1 == [c EXCEPT !.lastFrameTime = t,
                             !.mashProgress = @ - (c.mashDecay * deltaMs * Scale) \div 1000]
         IN  IF c1.mashProgress < 0
             THEN endMash(c1, FALSE, "Suppressed", t)
             ELSE IF c1.mashProgress >= WinProgress * Scale
                  THEN endMash(c1, TRUE, "Breakthrough", t)
                  ELSE IF t > c1.mashEndTime
                       THEN endMash(c1, FALSE, "Time's up", t)
                       ELSE LET fid == FreshId(c1)
                            IN  [c1 EXCEPT !.mashLoopId = fid,
                                           !.frames = Append(@, [id |-> fid,
                                                                 due |-> t + FramePeriod])]

\* A variant of gameLoop without the test of the deadline.
gameLoopNoDeadline(c, t) ==
    IF ~c.isActive \/ c.mode # "mash"
    THEN c
    ELSE LET deltaMs == t - c.lastFrameTime
             c1 == [c EXCEPT !.lastFrameTime = t,
                             !.mashProgress = @ - (c.mashDecay * deltaMs * Scale) \div 1000]
         IN  IF c1.mashProgress <= 0
             THEN endMash(c1, FALSE, "Suppressed", t)
             ELSE IF c1.mashProgress >= WinProgress * Scale
                  THEN endMash(c1, TRUE, "Breakthrough", t)
                  ELSE LET fid == FreshId(c1)
                       IN  [c1 EXCEPT !.mashLoopId = fid,
                                      !.frames = Append(@, [id |-> fid,
                                                            due |-> t + FramePeriod])]

\* A variant of gameLoop that tests the deadline first.
gameLoopDeadlineFirst(c, t) ==
    IF ~c.isActive \/ c.mode # "mash"
    THEN c
    ELSE LET deltaMs == t - c.lastFrameTime
             c1 == [c EXCEPT !.lastFrameTime = t,
                             !.mashProgress = @ - (c.mashDecay * deltaMs * Scale) \div 1000]
         IN  IF t > c1.mashEndTime
             THEN endMash(c1, FALSE, "Time's up", t)
             ELSE IF c1.mashProgress <= 0
                  THEN endMash(c1, FALSE, "Suppressed", t)
                  ELSE IF c1.mashProgress >= WinProgress * Scale
                       THEN endMash(c1, TRUE, "Breakthrough", t)
                       ELSE LET fid == FreshId(c1)
                            IN  [c1 EXCEPT !.mashLoopId = fid,
                                           !.frames = Append(@, [id |-> fid,
                                                                 due |-> t + FramePeriod])]

\* deltaTime = (now - lastFrameTime) / 1000 seconds; mashProgress is in 1/Scale.
gameLoop(c, t) ==
    IF ~c.isActive \/ c.mode # "mash"
    THEN c
    ELSE LET deltaMs == t - c.lastFrameTime
             c1 == [c EXCEPT !.lastFrameTime = t,
                             !.mashProgress = @ - (c.mashDecay * deltaMs * Scale) \div 1000]
         IN  IF c1.mashProgress <= 0
             THEN endMash(c1, FALSE, "Suppressed", t)
             ELSE IF c1.mashProgress >= WinProgress * Scale
                  THEN endMash(c1, TRUE, "Breakthrough", t)
                  ELSE IF t > c1.mashEndTime
                       THEN endMash(c1, FALSE, "Time's up", t)
                       ELSE LET fid == FreshId(c1)
                            IN  [c1 EXCEPT !.mashLoopId = fid,
                                           !.frames = Append(@, [id |-> fid,
                                                                 due |-> t + FramePeriod])]

\* A variant of handleMashKey that adds the default power, whatever the challenge's.
handleMashKeyDefaultPower(c, e, t) ==
    IF e.repeat
    THEN c
    ELSE IF e.code = "Space"
         THEN LET c1 == [c EXCEPT !.mashProgress = @ + Defaults.mashPower * Scale]
              IN  IF c1.mashProgress >= WinProgress * Scale
                  THEN endMash([c1 EXCEPT !.mashProgress = WinProgress * Scale],
                               TRUE, "Breakthrough", t)
                  ELSE c1
         ELSE c

\* A variant of handleMashKey that leaves the win to the next frame callback.
handleMashKeyNoWin(c, e, t) ==
    IF e.repeat
    THEN c
    ELSE IF e.code = "Space"
         THEN [c EXCEPT !.mashProgress = @ + c.mashPower * Scale]
         ELSE c

handleMashKey(c, e, t) ==
    IF e.repeat
    THEN c
    ELSE IF e.code = "Space"
         THEN LET c1 == [c EXCEPT !.mashProgress = @ + c.mashPower * Scale]
              IN  IF c1.mashProgress >= WinProgress * Scale
                  THEN endMash([c1 EXCEPT !.mashProgress = WinProgress * Scale],
                               TRUE, "Breakthrough", t)
                  ELSE c1
         ELSE c

startMash(c, data, t) ==
    LET c1 == [c EXCEPT !.mashProgress = InitialProgress * Scale,
                        !.mashDecay = data.mashDecay,
                        !.mashPower = data.mashPower,
                        !.mashEndTime = t + data.mashDuration * 1000]
        c2 == [c1 EXCEPT !.overlays = @ + 1]
        lid == FreshId(c2)
        c3 == [c2 EXCEPT !.boundHandleKey = lid,
                         !.listeners = Append(@, [id |-> lid, kind |-> "mash"])]
    IN  gameLoop([c3 EXCEPT !.lastFrameTime = t], t)

\* A variant of unblockCallback that leaves the blocker installed.
unblockCallbackKeepBlocker(c, ref) == c

\* The callbacks endMash leaves behind.
unblockCallback(c, ref) == [c EXCEPT !.listeners = RemoveId(@, ref)]

mashResultCallback(c, t) ==
    [c EXCEPT !.timers = Append(@, [id |-> FreshId(c), kind |-> "mashClear",
                                    due |-> t + MashFadeDelay])]

\* A variant of mashClearCallback that leaves isActive set.
mashClearCallbackKeepFlag(c) == removeOverlay(c)

mashClearCallback(c) ==
    [removeOverlay(c) EXCEPT !.isActive = FALSE, !.clears = @ + 1]

(***************************************************************************)
(* The entry point of a client: the handler of "startQTESession".          *)
(***************************************************************************)
\* Variants of startSession: one records mode and title before its two tests,
\* one lacks the isActive test, one lacks the gmPlay test.
startSessionTitleFirst(c, data, gm, t) ==
    LET c0 == [c EXCEPT !.mode = data.mode, !.title = data.title]
    IN  IF gm /\ ~data.gmPlay
        THEN c0
        ELSE IF c.isActive
             THEN c0
             ELSE LET c1 == [c0 EXCEPT !.isActive = TRUE, !.sessions = @ + 1]
                  IN  IF data.mode = "sequence"
                      THEN playNextSequence([c1 EXCEPT !.sequence = data.sequence,
                                                       !.currentIndex = 0,
                                                       !.results = <<>>], t)
                      ELSE IF data.mode = "mash"
                           THEN startMash(c1, data, t)
                           ELSE c1

startSessionNoActiveTest(c, data, gm, t) ==
    IF gm /\ ~data.gmPlay
    THEN c
    ELSE LET c1 == [c EXCEPT !.isActive = TRUE, !.mode = data.mode,
                             !.title = data.title, !.sessions = @ + 1]
         IN  IF data.mode = "sequence"
             THEN playNextSequence([c1 EXCEPT !.sequence = data.sequence,
                                              !.currentIndex = 0,
                                              !.results = <<>>], t)
             ELSE IF data.mode = "mash"
                  THEN startMash(c1, data, t)
                  ELSE c1

startSessionNoGmTest(c, data, gm, t) ==
    IF c.isActive
    THEN c
    ELSE LET c1 == [c EXCEPT !.isActive = TRUE, !.mode = data.mode,
                             !.title = data.title, !.sessions = @ + 1]
         IN  IF data.mode = "sequence"
             THEN playNextSequence([c1 EXCEPT !.sequence = data.sequence,
                                              !.currentIndex = 0,
                                              !.results = <<>>], t)
             ELSE IF data.mode = "mash"
                  THEN startMash(c1, data, t)
                  ELSE c1

\* A variant of startSession that records the title of a challenge it rejects
\* because isActive is set.
startSessionTitleOfRejected(c, data, gm, t) ==
    IF gm /\ ~data.gmPlay
    THEN c
    ELSE IF c.isActive
         THEN [c EXCEPT !.title = data.title]
         ELSE LET c1 == [c EXCEPT !.isActive = TRUE, !.mode = data.mode,
                                  !.title = data.title, !.sessions = @ + 1]
              IN  IF data.mode = "sequence"
                  THEN playNextSequence([c1 EXCEPT !.sequence = data.sequence,
                                                   !.currentIndex = 0,
                                                   !.results = <<>>], t)
                  ELSE IF data.mode = "mash"
                       THEN startMash(c1, data, t)
                       ELSE c1

\* A variant of startSession that does not take the sequence from the data.
startSessionKeepSequence(c, data, gm, t) ==
    IF gm /\ ~data.gmPlay
    THEN c
    ELSE IF c.isActive
         THEN c
         ELSE LET c1 == [c EXCEPT !.isActive = TRUE, !.mode = data.mode,
                                  !.title = data.title, !.sessions = @ + 1]
              IN  IF data.mode = "sequence"
                  THEN playNextSequence([c1 EXCEPT !.currentIndex = 0,
                                                   !.results = <<>>], t)
                  ELSE IF data.mode = "mash"
                       THEN startMash(c1, data, t)
                       ELSE c1

startSession(c, data, gm, t) ==
    IF gm /\ ~data.gmPlay
    THEN c
    ELSE IF c.isActive
         THEN c
         ELSE LET c1 == [c EXCEPT !.isActive = TRUE, !.mode = data.mode,
                                  !.title = data.title, !.sessions = @ + 1]
              IN  IF data.mode = "sequence"
                  THEN playNextSequence([c1 EXCEPT !.sequence = data.sequence,
                                                   !.currentIndex = 0,
                                                   !.results = <<>>], t)
                  ELSE IF data.mode = "mash"
                       THEN startMash(c1, data, t)
                       ELSE c1

(***************************************************************************)
(* The browser's dispatch of one keydown event on document.  The blocker   *)
(* of endMash is a capturing listener that stops propagation, so no        *)
(* bubbling listener sees the event while it is installed.  A listener     *)
(* removed while the event is dispatched is not called.                    *)
(***************************************************************************)
invokeListener(c, l, e, t) ==
    IF l.kind = "sequence"
    THEN handleSequenceKey(c, e, l.data, t)
    ELSE IF l.kind = "mash" THEN handleMashKey(c, e, t) ELSE c

RECURSIVE deliverKey(_, _, _, _)
deliverKey(c, ls, e, t) ==
    IF ls = <<>>
    THEN c
    ELSE IF Head(ls) \in Range(c.listeners)
         THEN deliverKey(invokeListener(c, Head(ls), e, t), Tail(ls), e, t)
         ELSE deliverKey(c, Tail(ls), e, t)

dispatchKeydown(c, e, t) ==
    IF \E l \in Range(c.listeners) : l.kind = "blocker"
    THEN c
    ELSE deliverKey(c, c.listeners, e, t)

\* setTimeout callbacks run in the order of their due times, then of their creation.
NextTimer(c) ==
    c.timers[CHOOSE i \in DOMAIN c.timers :
                \A j \in DOMAIN c.timers :
                    \/ c.timers[j].due > c.timers[i].due
                    \/ c.timers[j].due = c.timers[i].due /\ j >= i]

TimerDue(c, kind, t) ==
    /\ c.timers # <<>>
    /\ NextTimer(c).kind = kind
    /\ NextTimer(c).due <= t

popTimer(c) == [c EXCEPT !.timers = RemoveId(@, NextTimer(c).id)]

(***************************************************************************)
(* VisualQTE.trigger.                                                      *)
(***************************************************************************)
\* The configurations the game master's macros pass to trigger: pool holds the
\* ones in use in a behaviour.
Configs ==
    { [mode |-> "sequence", count |-> 2, duration |-> 100, windowSize |-> 100,
       title |-> "Duel"],
      [mode |-> "sequence", count |-> 1, duration |-> 200, windowSize |-> 200],
      [mode |-> "sequence", count |-> 0, gmPlay |-> FALSE],
      [mode |-> "mash", mashPower |-> 30, mashDecay |-> 100, mashDuration |-> 1,
       title |-> "Push", gmPlay |-> FALSE, targetIds |-> <<"gm", "p1">>],
      [mode |-> "dance"] }

\* The README's mash call, with a one second limit.
MashConfigs ==
    { [mode |-> "mash", mashPower |-> 6, mashDecay |-> 30, mashDuration |-> 1,
       gmPlay |-> TRUE, targetIds |-> <<>>] }

\* A variant of mergeObject in which the first argument wins.
mergeObjectKeepOriginal(original, other) ==
    [f \in DOMAIN original \cup DOMAIN other |->
        IF f \in DOMAIN original THEN original[f] ELSE other[f]]

mergeObject(original, other) ==
    [f \in DOMAIN original \cup DOMAIN other |->
        IF f \in DOMAIN other THEN other[f] ELSE original[f]]

\* A variant of generatePrompt whose ratio is random * maxRatio + minRatio.
generatePromptWideRatio(i, r1, r2, data) ==
    LET randomChar == Chars[(r1 * Len(Chars)) \div RandomDen + 1]
        keyDisplay == IF randomChar = " " THEN "SPACE" ELSE randomChar
        keyCode == IF randomChar = " " THEN "Space" ELSE "Key" \o randomChar
        targetTime == data.duration * (7 * r2 + 3 * RandomDen)
    IN  [id |-> i, keyDisplay |-> keyDisplay, targetKey |-> keyCode,
         duration |-> data.duration, hitTime |-> targetTime,
         windowSize |-> data.windowSize]

\* One prompt, from the two values r1, r2 that Math.random() returns for it
\* (each k standing for k / RandomDen).
generatePrompt(i, r1, r2, data) ==
    LET randomChar == Chars[(r1 * Len(Chars)) \div RandomDen + 1]
        keyDisplay == IF randomChar = " " THEN "SPACE" ELSE randomChar
        keyCode == IF randomChar = " " THEN "Space" ELSE "Key" \o randomChar
        \* targetTime = duration * (random * (0.7 - 0.3) + 0.3), in 1/HitScale ms
        targetTime == data.duration * (4 * r2 + 3 * RandomDen)
    IN  [id |-> i, keyDisplay |-> keyDisplay, targetKey |-> keyCode,
         duration |-> data.duration, hitTime |-> targetTime,
         windowSize |-> data.windowSize]

\* A variant of generateSequence whose loop starts at i = 1.
generateSequenceFromOne(data, rand) ==
    [i \in 1 .. data.count - 1 |-> generatePrompt(i, rand[2 * i - 1], rand[2 * i], data)]

generateSequence(data, rand) ==
    [i \in 1 .. data.count |-> generatePrompt(i - 1, rand[2 * i - 1], rand[2 * i], data)]

\* A variant of trigger without the test of qteSocket.
triggerNoReadyTest(ready, config, rand) ==
    LET merged == mergeObject(Defaults, config)
        data == IF merged.mode = "sequence"
                THEN [f \in DOMAIN merged \cup {"sequence"} |->
                         IF f = "sequence" THEN generateSequence(merged, rand)
                                           ELSE merged[f]]
                ELSE merged
    IN  IF Len(data.targetIds) > 0
        THEN [notices |-> << [type |-> "info", mode |-> data.mode,
                              count |-> Len(data.targetIds)] >>,
              calls |-> << [fn |-> "executeForUsers", ids |-> data.targetIds,
                            data |-> data] >>]
        ELSE [notices |-> << [type |-> "info", mode |-> data.mode, count |-> 0] >>,
              calls |-> << [fn |-> "executeForEveryone", ids |-> <<>>,
                            data |-> data] >>]

\* A variant of trigger that broadcasts whatever targetIds holds.
triggerBroadcastOnly(ready, config, rand) ==
    IF ~ready
    THEN [notices |-> << [type |-> "error"] >>, calls |-> <<>>]
    ELSE LET merged == mergeObject(Defaults, config)
             data == IF merged.mode = "sequence"
                     THEN [f \in DOMAIN merged \cup {"sequence"} |->
                              IF f = "sequence" THEN generateSequence(merged, rand)
                                                ELSE merged[f]]
                     ELSE merged
         IN  [notices |-> << [type |-> "info", mode |-> data.mode, count |-> 0] >>,
              calls |-> << [fn |-> "executeForEveryone", ids |-> <<>>,
                            data |-> data] >>]

\* A variant of trigger that, when gmPlay is false, sends to the users that
\* are no game master instead of to everyone.
triggerEnforceGmPlay(ready, config, rand) ==
    IF ~ready
    THEN [notices |-> << [type |-> "error"] >>, calls |-> <<>>]
    ELSE LET merged == mergeObject(Defaults, config)
             data == IF merged.mode = "sequence"
                     THEN [f \in DOMAIN merged \cup {"sequence"} |->
                              IF f = "sequence" THEN generateSequence(merged, rand)
                                                ELSE merged[f]]
                     ELSE merged
         IN  IF Len(data.targetIds) > 0
             THEN [notices |-> << [type |-> "info", mode |-> data.mode,
                                   count |-> Len(data.targetIds)] >>,
                   calls |-> << [fn |-> "executeForUsers", ids |-> data.targetIds,
                                 data |-> data] >>]
             ELSE IF ~data.gmPlay
                  THEN [notices |-> << [type |-> "info", mode |-> data.mode, count |-> 0] >>,
                        calls |-> << [fn |-> "executeForUsers", ids |-> << "p1" >>,
                                      data |-> data] >>]
                  ELSE [notices |-> << [type |-> "info", mode |-> data.mode, count |-> 0] >>,
                        calls |-> << [fn |-> "executeForEveryone", ids |-> <<>>,
                                      data |-> data] >>]

\* What one call of trigger does: the notices it shows and the transport calls it makes.
trigger(ready, config, rand) ==
    IF ~ready
    THEN [notices |-> << [type |-> "error"] >>, calls |-> <<>>]
    ELSE LET merged == mergeObject(Defaults, config)
             data == IF merged.mode = "sequence"
                     THEN [f \in DOMAIN merged \cup {"sequence"} |->
                              IF f = "sequence" THEN generateSequence(merged, rand)
                                                ELSE merged[f]]
                     ELSE merged
         IN  IF Len(data.targetIds) > 0
             THEN [notices |-> << [type |-> "info", mode |-> data.mode,
                                   count |-> Len(data.targetIds)] >>,
                   calls |-> << [fn |-> "executeForUsers", ids |-> data.targetIds,
                                 data |-> data] >>]
             ELSE [notices |-> << [type |-> "info", mode |-> data.mode, count |-> 0] >>,
                   calls |-> << [fn |-> "executeForEveryone", ids |-> <<>>,
                                 data |-> data] >>]

\* The users a transport call reaches: those connected whose page has registered
\* "startQTESession".
Recipients(call) ==
    { u \in connected :
        /\ qteSocket[u]
        /\ call.fn = "executeForUsers" => u \in Range(call.ids) }

\* The random streams long enough for the prompts trigger generates from config.
RandomDraws(config) ==
    LET merged == mergeObject(Defaults, config)
    IN  { r \in RandomStreams :
            merged.mode = "sequence" => Len(r) >= 2 * merged.count }

(***************************************************************************)
(* Actions.                                                                *)
(***************************************************************************)
\* Hooks.once("socketlib.ready").
SocketReady(u) ==
    /\ u \in connected
    /\ ~qteSocket[u]
    /\ qteSocket' = [qteSocket EXCEPT ![u] = TRUE]
    /\ UNCHANGED <<now, connected, pool, triggers, notices, calls, inbox, page>>

Trigger(u, config, rand) ==
    /\ u \in connected
    /\ config \in pool
    /\ triggers < MaxTriggers
    /\ triggers' = triggers + 1
    /\ LET out == trigger(qteSocket[u], config, rand)
       IN  /\ notices' = [notices EXCEPT ![u] = @ \o out.notices]
           /\ calls' = calls \o out.calls
           /\ inbox' = [v \in Users |->
                          inbox[v] \o SelectSeq([i \in DOMAIN out.calls |->
                                                    [data |-> out.calls[i].data,
                                                     due |-> now]],
                                                LAMBDA m : v \in Recipients(out.calls[1]))]
    /\ UNCHANGED <<now, connected, pool, qteSocket, page>>

\* The socket delivers a challenge: QTEOverlay.startSession runs.
Deliver(u) ==
    /\ inbox[u] # <<>>
    /\ inbox' = [inbox EXCEPT ![u] = Tail(@)]
    /\ page' = [page EXCEPT ![u] = startSession(@, Head(inbox[u]).data, isGM(u), now)]
    /\ UNCHANGED <<now, connected, pool, qteSocket, triggers, notices, calls>>

\* A variant of KeyDown in which every client's listeners see the event.
KeyDownEveryPage(u, e) ==
    /\ page[u].listeners # <<>>
    /\ page' = [v \in Users |-> dispatchKeydown(page[v], e, now)]
    /\ UNCHANGED <<now, connected, pool, qteSocket, triggers, notices, calls, inbox>>

\* The browser calls the keydown listeners installed on document.
KeyDown(u, e) ==
    /\ page[u].listeners # <<>>
    /\ page' = [page EXCEPT ![u] = dispatchKeydown(@, e, now)]
    /\ UNCHANGED <<now, connected, pool, qteSocket, triggers, notices, calls, inbox>>

StepTimeout(u) ==
    /\ TimerDue(page[u], "stepTimeout", now)
    /\ page' = [page EXCEPT ![u] = stepTimeoutCallback(popTimer(@), NextTimer(@).data, now)]
    /\ UNCHANGED <<now, connected, pool, qteSocket, triggers, notices, calls, inbox>>

HoldDone(u) ==
    /\ TimerDue(page[u], "hold", now)
    /\ page' = [page EXCEPT ![u] = holdCallback(popTimer(@), now)]
    /\ UNCHANGED <<now, connected, pool, qteSocket, triggers, notices, calls, inbox>>

AdvanceDone(u) ==
    /\ TimerDue(page[u], "advance", now)
    /\ page' = [page EXCEPT ![u] = advanceCallback(popTimer(@), now)]
    /\ UNCHANGED <<now, connected, pool, qteSocket, triggers, notices, calls, inbox>>

\* The browser runs the frame callback at its next repaint.
Frame(u) ==
    /\ page[u].frames # <<>>
    /\ Head(page[u].frames).due <= now
    /\ page' = [page EXCEPT ![u] = gameLoop([@ EXCEPT !.frames = Tail(@)], now)]
    /\ UNCHANGED <<now, connected, pool, qteSocket, triggers, notices, calls, inbox>>

Unblock(u) ==
    /\ TimerDue(page[u], "unblock", now)
    /\ page' = [page EXCEPT ![u] = unblockCallback(popTimer(@), NextTimer(@).ref)]
    /\ UNCHANGED <<now, connected, pool, qteSocket, triggers, notices, calls, inbox>>

MashResultDone(u) ==
    /\ TimerDue(page[u], "mashResult", now)
    /\ page' = [page EXCEPT ![u] = mashResultCallback(popTimer(@), now)]
    /\ UNCHANGED <<now, connected, pool, qteSocket, triggers, notices, calls, inbox>>

MashClear(u) ==
    /\ TimerDue(page[u], "mashClear", now)
    /\ page' = [page EXCEPT ![u] = mashClearCallback(popTimer(@))]
    /\ UNCHANGED <<now, connected, pool, qteSocket, triggers, notices, calls, inbox>>

\* The due times of everything that is waiting to run.
PendingDues ==
    UNION { { x.due : x \in Range(page[u].timers) }
                \cup { x.due : x \in Range(page[u].frames) }
                \cup { x.due : x \in Range(inbox[u]) } : u \in Users }

\* A handler reads Date.now() only when a key event or a frame callback runs it:
\* while some page has an engine key listener or a frame callback installed the
\* clock moves by Quantum, otherwise straight to the next due time.
TimeObserved ==
    \E u \in Users :
        \/ page[u].frames # <<>>
        \/ \E l \in Range(page[u].listeners) : l.kind # "blocker"

NextInstant ==
    LET first == CHOOSE d \in PendingDues : \A d2 \in PendingDues : d <= d2
    IN  IF ~TimeObserved /\ first > now THEN first ELSE now + Quantum

\* Date.now() advances while something is waiting, and nothing waits for MaxLate
\* or longer past its due time.
Tick ==
    /\ PendingDues # {}
    /\ \A d \in PendingDues : now < d + MaxLate \/ now < d
    /\ now' = NextInstant
    /\ UNCHANGED <<connected, pool, qteSocket, triggers, notices, calls, inbox, page>>

Init ==
    /\ now = 0
    /\ connected \in { {u} : u \in Users }
    /\ pool = Configs
    /\ qteSocket = [u \in Users |-> FALSE]
    /\ triggers = 0
    /\ notices = [u \in Users |-> <<>>]
    /\ calls = <<>>
    /\ inbox = [u \in Users |-> <<>>]
    /\ page = [u \in Users |-> PageInit]

Next ==
    \/ \E u \in Users : SocketReady(u)
    \/ \E u \in Users, config \in pool : \E rand \in RandomDraws(config) :
            Trigger(u, config, rand)
    \/ \E u \in Users : Deliver(u)
    \/ \E u \in Users, e \in KeyEvents : KeyDown(u, e)
    \/ \E u \in Users : StepTimeout(u)
    \/ \E u \in Users : HoldDone(u)
    \/ \E u \in Users : AdvanceDone(u)
    \/ \E u \in Users : Frame(u)
    \/ \E u \in Users : Unblock(u)
    \/ \E u \in Users : MashResultDone(u)
    \/ \E u \in Users : MashClear(u)
    \/ Tick

Spec == Init /\ [][Next]_vars

\* The tasks of the event loops; a key press is the player's.
Run ==
    \E u \in Users :
        \/ Deliver(u)
        \/ StepTimeout(u)
        \/ HoldDone(u)
        \/ AdvanceDone(u)
        \/ Frame(u)
        \/ Unblock(u)
        \/ MashResultDone(u)
        \/ MashClear(u)

\* An event loop runs a task that is ready, and the clock does not stop.
Fairness == WF_vars(Run) /\ WF_vars(Tick)

FairSpec == Spec /\ Fairness

(***************************************************************************)
(* Mash sessions with the README's power and decay.                        *)
(***************************************************************************)
InitMash ==
    /\ now = 0
    /\ connected \in { {u} : u \in Users }
    /\ pool = MashConfigs
    /\ qteSocket = [u \in Users |-> FALSE]
    /\ triggers = 0
    /\ notices = [u \in Users |-> <<>>]
    /\ calls = <<>>
    /\ inbox = [u \in Users |-> <<>>]
    /\ page = [u \in Users |-> PageInit]

NextMash ==
    \/ \E u \in Users : SocketReady(u)
    \/ \E u \in Users, config \in pool : \E rand \in RandomDraws(config) :
            Trigger(u, config, rand)
    \/ \E u \in Users : Deliver(u)
    \/ \E u \in Users, e \in KeyEvents : KeyDown(u, e)
    \/ \E u \in Users : Frame(u)
    \/ \E u \in Users : Unblock(u)
    \/ \E u \in Users : MashResultDone(u)
    \/ \E u \in Users : MashClear(u)
    \/ Tick

SpecMash == InitMash /\ [][NextMash]_vars

(***************************************************************************)
(* Two connected clients, the game master's and a player's, and           *)
(* challenges sent to the player alone and to everyone.                    *)
(***************************************************************************)
CrowdConfigs ==
    { [mode |-> "sequence", count |-> 1, duration |-> 100, windowSize |-> 100,
       targetIds |-> <<"p1">>],
      [mode |-> "sequence", count |-> 1, duration |-> 100, windowSize |-> 100,
       title |-> "Duel"] }

InitCrowd ==
    /\ now = 0
    /\ connected = Users
    /\ pool = CrowdConfigs
    /\ qteSocket = [u \in Users |-> FALSE]
    /\ triggers = 0
    /\ notices = [u \in Users |-> <<>>]
    /\ calls = <<>>
    /\ inbox = [u \in Users |-> <<>>]
    /\ page = [u \in Users |-> PageInit]

NextCrowd ==
    \/ \E u \in Users : SocketReady(u)
    \/ \E u \in Users, config \in pool : \E rand \in RandomDraws(config) :
            Trigger(u, config, rand)
    \/ \E u \in Users : Deliver(u)
    \/ \E u \in Users, e \in KeyEvents : KeyDown(u, e)
    \/ \E u \in Users : StepTimeout(u)
    \/ \E u \in Users : HoldDone(u)
    \/ \E u \in Users : AdvanceDone(u)
    \/ Tick

SpecCrowd == InitCrowd /\ [][NextCrowd]_vars

(***************************************************************************)
(* One call of trigger on a ready transport, for configurations that       *)
(* supply none, one, all but one and all of the fields, every step count   *)
(* up to MaxCount, and every value Math.random() can return.               *)
(***************************************************************************)
MaxCount == 4

FullConfig ==
    [title |-> "Duel", mode |-> "sequence", count |-> 2, duration |-> 1000,
     windowSize |-> 200, mashDecay |-> 10, mashDuration |-> 5, mashPower |-> 10,
     gmPlay |-> FALSE, targetIds |-> <<"p1">>]

Restrict(config, fields) == [f \in fields |-> config[f]]

GenConfigs ==
    { Restrict(FullConfig, {}), FullConfig }
        \cup { Restrict(FullConfig, {f}) : f \in DOMAIN FullConfig }
        \cup { Restrict(FullConfig, DOMAIN FullConfig \ {f}) : f \in DOMAIN FullConfig }
        \cup { [count |-> n, duration |-> 7, windowSize |-> 1] : n \in 0 .. MaxCount }
        \cup { [mode |-> "mash", count |-> 1] }

\* The streams Math.random() returns to one call: it starts at any of its values
\* and runs through them, so that every prompt meets every value.
GenDraws(config) ==
    LET merged == mergeObject(Defaults, config)
        n == IF merged.mode = "sequence" THEN merged.count ELSE 0
    IN  { [i \in 1 .. 2 * n |-> (r + i - 1) % RandomDen] : r \in 0 .. RandomDen - 1 }

\* The socketlib.ready hook has run on every client, and the bound allows one
\* more call of trigger.
InitGen ==
    /\ now = 0
    /\ connected \in { {u} : u \in Users }
    /\ pool = GenConfigs
    /\ qteSocket = [u \in Users |-> TRUE]
    /\ triggers = MaxTriggers - 1
    /\ notices = [u \in Users |-> <<>>]
    /\ calls = <<>>
    /\ inbox = [u \in Users |-> <<>>]
    /\ page = [u \in Users |-> PageInit]

NextGen ==
    \E u \in Users, config \in pool : \E rand \in GenDraws(config) :
        Trigger(u, config, rand)

SpecGen == InitGen /\ [][NextGen]_vars

(***************************************************************************)
(* Two clients that have both registered the handler, and the last call   *)
(* of trigger the bound allows: the broadcast of a one-prompt sequence or  *)
(* of a short mash challenge.                                              *)
(***************************************************************************)
PairConfigs ==
    { [mode |-> "sequence", count |-> 1, duration |-> 100, windowSize |-> 100],
      [mode |-> "mash", mashPower |-> 50, mashDecay |-> 100, mashDuration |-> 1,
       title |-> "Push"] }

InitPair ==
    /\ now = 0
    /\ connected = Users
    /\ pool = PairConfigs
    /\ qteSocket = [u \in Users |-> TRUE]
    /\ triggers = MaxTriggers - 1
    /\ notices = [u \in Users |-> <<>>]
    /\ calls = <<>>
    /\ inbox = [u \in Users |-> <<>>]
    /\ page = [u \in Users |-> PageInit]

NextPair ==
    \/ \E u \in Users, config \in pool : \E rand \in RandomDraws(config) :
            Trigger(u, config, rand)
    \/ \E u \in Users : Deliver(u)
    \/ \E u \in Users, e \in KeyEvents : KeyDown(u, e)
    \/ \E u \in Users : StepTimeout(u)
    \/ \E u \in Users : HoldDone(u)
    \/ \E u \in Users : AdvanceDone(u)
    \/ \E u \in Users : Frame(u)
    \/ \E u \in Users : Unblock(u)
    \/ \E u \in Users : MashResultDone(u)
    \/ \E u \in Users : MashClear(u)
    \/ Tick

SpecPair == InitPair /\ [][NextPair]_vars

(***************************************************************************)
(* Mash sessions whose outcome is decided in a frame callback: a bar that  *)
(* rises by itself (trigger does not validate mashDecay), a bar that is    *)
(* empty at the first frame after a deadline already reached, and a bar    *)
(* that stands still until the time is up.  One press wins.                *)
(***************************************************************************)
TickConfigs ==
    { [mode |-> "mash", mashPower |-> 50, mashDecay |-> -100, mashDuration |-> 1],
      [mode |-> "mash", mashPower |-> 50, mashDecay |-> 500, mashDuration |-> 0],
      [mode |-> "mash", mashPower |-> 50, mashDecay |-> 0, mashDuration |-> 1] }

InitTick ==
    /\ now = 0
    /\ connected \in { {u} : u \in Users }
    /\ pool = TickConfigs
    /\ qteSocket = [u \in Users |-> FALSE]
    /\ triggers = 0
    /\ notices = [u \in Users |-> <<>>]
    /\ calls = <<>>
    /\ inbox = [u \in Users |-> <<>>]
    /\ page = [u \in Users |-> PageInit]

SpecTick == InitTick /\ [][NextMash]_vars

(***************************************************************************)
(* QTEDialog.formHandler: the game master submits the configuration form.  *)
(***************************************************************************)
\* The order of the form's target checkboxes.
UserOrder == << "gm", "p1" >>

\* parseInt of the decimal digits of a form field.
RECURSIVE parseInt(_)
parseInt(digits) ==
    IF digits = <<>>
    THEN 0
    ELSE 10 * parseInt(SubSeq(digits, 1, Len(digits) - 1)) + digits[Len(digits)]

\* formData.object: targets[id] is the field "targets.<id>".
Forms ==
    [gmPlay : BOOLEAN, mode : {"sequence", "mash"}, customTitle : {"", "Duel"},
     targets : [Users -> BOOLEAN],
     count : { <<0>>, <<1>> }, difficulty : { <<1, 0, 0>> }, windowSize : { <<1, 0, 0>> },
     mashDecay : { <<3, 0>> }, mashDuration : { <<1>> }, mashPower : { <<6>> }]

\* A variant of formHandler that adds the user's id without looking for it.
formHandlerAlwaysPush(data, userId) ==
    LET selected == SelectSeq(UserOrder, LAMBDA id : data.targets[id])
        targetIds == IF Len(selected) > 0 /\ data.gmPlay
                     THEN Append(selected, userId)
                     ELSE selected
    IN  IF data.mode = "sequence"
        THEN [title |-> data.customTitle, mode |-> "sequence",
              count |-> parseInt(data.count), duration |-> parseInt(data.difficulty),
              windowSize |-> parseInt(data.windowSize),
              gmPlay |-> data.gmPlay, targetIds |-> targetIds]
        ELSE [title |-> data.customTitle, mode |-> "mash",
              mashDecay |-> parseInt(data.mashDecay),
              mashDuration |-> parseInt(data.mashDuration),
              mashPower |-> parseInt(data.mashPower),
              gmPlay |-> data.gmPlay, targetIds |-> targetIds]

\* The configuration formHandler passes to trigger; userId is game.user.id.
formHandler(data, userId) ==
    LET selected == SelectSeq(UserOrder, LAMBDA id : data.targets[id])
        targetIds == IF Len(selected) > 0 /\ data.gmPlay /\ userId \notin Range(selected)
                     THEN Append(selected, userId)
                     ELSE selected
    IN  IF data.mode = "sequence"
        THEN [title |-> data.customTitle, mode |-> "sequence",
              count |-> parseInt(data.count), duration |-> parseInt(data.difficulty),
              windowSize |-> parseInt(data.windowSize),
              gmPlay |-> data.gmPlay, targetIds |-> targetIds]
        ELSE [title |-> data.customTitle, mode |-> "mash",
              mashDecay |-> parseInt(data.mashDecay),
              mashDuration |-> parseInt(data.mashDuration),
              mashPower |-> parseInt(data.mashPower),
              gmPlay |-> data.gmPlay, targetIds |-> targetIds]

FormConfigs == { formHandler(data, u) : data \in Forms, u \in { v \in Users : isGM(v) } }

\* The form is submitted: formHandler calls trigger.
Submit(u, data, rand) ==
    /\ isGM(u)
    /\ Trigger(u, formHandler(data, u), rand)

\* The socketlib.ready hook has run on every client, and the bound allows one
\* more call of trigger.
InitForm ==
    /\ now = 0
    /\ connected = Users
    /\ pool = FormConfigs
    /\ qteSocket = [u \in Users |-> TRUE]
    /\ triggers = MaxTriggers - 1
    /\ notices = [u \in Users |-> <<>>]
    /\ calls = <<>>
    /\ inbox = [u \in Users |-> <<>>]
    /\ page = [u \in Users |-> PageInit]

NextForm ==
    \E u \in Users, data \in Forms : \E rand \in GenDraws(formHandler(data, u)) :
        Submit(u, data, rand)

SpecForm == InitForm /\ [][NextForm]_vars

(***************************************************************************)
(* Mash sessions of the spec's end-to-end example: power 10, no decay, a   *)
(* five second limit.                                                      *)
(***************************************************************************)
PowerConfigs ==
    { [mode |-> "mash", mashPower |-> 10, mashDecay |-> 0, mashDuration |-> 5] }

InitPower ==
    /\ now = 0
    /\ connected \in { {u} : u \in Users }
    /\ pool = PowerConfigs
    /\ qteSocket = [u \in Users |-> FALSE]
    /\ triggers = 0
    /\ notices = [u \in Users |-> <<>>]
    /\ calls = <<>>
    /\ inbox = [u \in Users |-> <<>>]
    /\ page = [u \in Users |-> PageInit]

SpecPower == InitPower /\ [][NextMash]_vars

(***************************************************************************)
(* The judgement of one key press: a player's page is showing the only     *)
(* prompt of a sequence challenge, armed at time 0, and the clock stands   *)
(* anywhere in the step's duration.                                        *)
(***************************************************************************)
JudgeWindows == {7, 10, 300}

JudgeConfigs == { [mode |-> "sequence", count |-> 1, windowSize |-> w] : w \in JudgeWindows }

InitJudge ==
    \E config \in JudgeConfigs, rand \in RandomStreams :
        LET out == trigger(TRUE, config, rand)
        IN  /\ now \in 0 .. Defaults.duration
            /\ connected = {"p1"}
            /\ pool = JudgeConfigs
            /\ qteSocket = [u \in Users |-> u = "p1"]
            /\ triggers = 1
            /\ notices = [u \in Users |-> IF u = "p1" THEN out.notices ELSE <<>>]
            /\ calls = out.calls
            /\ inbox = [u \in Users |-> <<>>]
            /\ page = [u \in Users |->
                         IF u = "p1" THEN startSession(PageInit, out.calls[1].data, FALSE, 0)
                                     ELSE PageInit]

NextJudge == \E u \in Users, e \in KeyEvents : KeyDown(u, e)

SpecJudge == InitJudge /\ [][NextJudge]_vars

(***************************************************************************)
(* The verdict of a sequence session: a player's page has resolved the     *)
(* last of n prompts (perfects of them Perfect, pressed at the hit time;   *)
(* goods of them Good, pressed GoodOffset ms early; the others with the    *)
(* wrong key at once) and the last hold and fade are over.                 *)
(***************************************************************************)
MaxSteps == 10

GoodOffset == 100

VerdictPage(perfects, goods, fails, failsFirst) ==
    LET n == perfects + goods + fails
        data == mergeObject(Defaults, [count |-> n])
        sequence == [i \in 1 .. n |-> generatePrompt(i - 1, 0, 0, data)]
        hit == sequence[1].hitTime \div HitScale
        class(i) == LET j == IF failsFirst THEN n + 1 - i ELSE i
                    IN  IF j <= perfects THEN "P" ELSE IF j <= perfects + goods THEN "G" ELSE "F"
        press(i) == IF class(i) = "P" THEN hit
                    ELSE IF class(i) = "G" THEN hit - GoodOffset ELSE 0
        RECURSIVE start(_)
        start(i) == IF i = 1 THEN 0 ELSE start(i - 1) + press(i - 1) + HoldDelay + FadeDelay
        results == [i \in 1 .. n |->
                      IF class(i) = "P"
                      THEN [key |-> "A", success |-> TRUE, ratingText |-> "Perfect",
                            ratingClass |-> "result-perfect", diff |-> 0]
                      ELSE IF class(i) = "G"
                           THEN [key |-> "A", success |-> TRUE, ratingText |-> "Good",
                                 ratingClass |-> "result-good", diff |-> GoodOffset * HitScale]
                           ELSE [key |-> "A", success |-> FALSE, ratingText |-> "Wrong-input",
                                 ratingClass |-> "result-bad", diff |-> 0]]
    IN  [PageInit EXCEPT !.isActive = TRUE, !.mode = "sequence", !.sequence = sequence,
                         !.currentIndex = n - 1, !.results = results,
                         !.boundHandleKey = 0, !.timeoutId = 1, !.startTime = start(n),
                         !.timers = << [id |-> 0, kind |-> "advance",
                                        due |-> start(n + 1)] >>,
                         !.overlays = 1, !.sessions = 1]

InitVerdict ==
    \E n \in 1 .. MaxSteps : \E perfects \in 0 .. n : \E goods \in 0 .. n - perfects :
    \E failsFirst \in BOOLEAN :
        LET c == VerdictPage(perfects, goods, n - perfects - goods, failsFirst)
            data == mergeObject(Defaults, [count |-> n])
        IN  /\ now = c.timers[1].due
            /\ connected = {"p1"}
            /\ pool = { [mode |-> "sequence", count |-> n] }
            /\ qteSocket = [u \in Users |-> u = "p1"]
            /\ triggers = 1
            /\ notices = [u \in Users |->
                            IF u = "p1"
                            THEN << [type |-> "info", mode |-> "sequence", count |-> 0] >>
                            ELSE <<>>]
            /\ calls = << [fn |-> "executeForEveryone", ids |-> <<>>,
                           data |-> [f \in DOMAIN data \cup {"sequence"} |->
                                       IF f = "sequence" THEN c.sequence ELSE data[f]]] >>
            /\ inbox = [u \in Users |-> <<>>]
            /\ page = [u \in Users |-> IF u = "p1" THEN c ELSE PageInit]

NextVerdict == \E u \in Users : AdvanceDone(u)

SpecVerdict == InitVerdict /\ [][NextVerdict]_vars

(***************************************************************************)
(* Mash sessions that presses can keep going until the deadline: the       *)
(* README's power, with the README's decay and with a bar that stands      *)
(* still.  Frame callbacks and timers run when due and the clock advances. *)
(***************************************************************************)
EndConfigs ==
    { [mode |-> "mash", mashPower |-> 6, mashDecay |-> 30, mashDuration |-> 1],
      [mode |-> "mash", mashPower |-> 6, mashDecay |-> 0, mashDuration |-> 1,
       title |-> "Push"] }

InitEnd ==
    /\ now = 0
    /\ connected \in { {u} : u \in Users }
    /\ pool = EndConfigs
    /\ qteSocket = [u \in Users |-> FALSE]
    /\ triggers = MaxTriggers - 1
    /\ notices = [u \in Users |-> <<>>]
    /\ calls = <<>>
    /\ inbox = [u \in Users |-> <<>>]
    /\ page = [u \in Users |-> PageInit]

SpecEnd == InitEnd /\ [][NextMash]_vars

FairEnd == SpecEnd /\ Fairness

(***************************************************************************)
(* Two connected clients and challenges that differ in gmPlay alone, sent  *)
(* to everyone, to the game master, and to both users by name.             *)
(***************************************************************************)
GateConfigs ==
    { [mode |-> "sequence", count |-> 1, duration |-> 100, windowSize |-> 100,
       gmPlay |-> g, targetIds |-> ids] :
         g \in BOOLEAN, ids \in { <<>>, << "gm" >>, << "gm", "p1" >> } }

InitGate ==
    /\ now = 0
    /\ connected = Users
    /\ pool = GateConfigs
    /\ qteSocket = [u \in Users |-> FALSE]
    /\ triggers = MaxTriggers - 1
    /\ notices = [u \in Users |-> <<>>]
    /\ calls = <<>>
    /\ inbox = [u \in Users |-> <<>>]
    /\ page = [u \in Users |-> PageInit]

SpecGate == InitGate /\ [][NextCrowd]_vars

(***************************************************************************)
(* Properties.                                                             *)
(***************************************************************************)
\* The payloads trigger can send from the configurations in use.
Payloads ==
    { trigger(TRUE, config, rand).calls[1].data :
        config \in pool, rand \in RandomStreams }

Reports(c, kind) == { i \in DOMAIN c.chat : c.chat[i].kind = kind }

TimersOf(c, kinds) == { i \in DOMAIN c.timers : c.timers[i].kind \in kinds }

ListenersOf(c, kinds) == { i \in DOMAIN c.listeners : c.listeners[i].kind \in kinds }

\* C1: on a page whose isActive is set, startSession changes nothing for any
\* challenge, whatever the session is doing: no field, no listener, no timer,
\* no frame callback, no overlay, no chat message.
C1_ActiveRejects ==
    \A u \in Users : \A data \in Payloads :
        page[u].isActive => startSession(page[u], data, isGM(u), now) = page[u]

\* A player's page has received two challenges while it holds between two steps
\* of the first one: the second was dropped.
C1_Witness ==
    LET c == page["p1"]
    IN  /\ Len(calls) = 2 /\ inbox["p1"] = <<>>
        /\ c.isActive /\ c.sessions = 1 /\ c.mode = "sequence"
        /\ Len(c.results) = 1 /\ c.currentIndex = 0
        /\ c.listeners = <<>>
        /\ TimersOf(c, {"hold", "advance"}) # {}

\* What an engine leaves on a page while it runs.
SequenceLive(c) ==
    \/ ListenersOf(c, {"sequence"}) # {}
    \/ TimersOf(c, {"stepTimeout", "hold", "advance"}) # {}

MashLive(c) ==
    \/ ListenersOf(c, {"mash"}) # {}
    \/ c.frames # <<>>
    \/ TimersOf(c, {"mashResult", "mashClear"}) # {}

\* C2: on every page at most one engine is live: never more than one engine key
\* listener, one pending step timeout, one pending frame callback, and never
\* anything of the sequence engine together with anything of the mash engine.
C2_OneEngine ==
    \A u \in Users :
        LET c == page[u]
        IN  /\ Cardinality(ListenersOf(c, {"sequence", "mash"})) <= 1
            /\ Cardinality(TimersOf(c, {"stepTimeout"})) <= 1
            /\ Len(c.frames) <= 1
            /\ ~(SequenceLive(c) /\ MashLive(c))
            /\ (SequenceLive(c) \/ MashLive(c)) => c.isActive

\* A page runs a mash session, its second session, after a sequence session.
C2_Witness ==
    \E u \in Users :
        LET c == page[u]
        IN  /\ c.sessions = 2 /\ c.isActive /\ c.mode = "mash"
            /\ Reports(c, "sequence") = {1}
            /\ ListenersOf(c, {"mash"}) # {} /\ Len(c.frames) = 1

FlagClearedOncePerSession ==
    \A u \in Users :
        page[u].clears = page[u].sessions - (IF page[u].isActive THEN 1 ELSE 0)

\* C4: every session a page accepts for one of the two engines ends with isActive
\* cleared, whatever its outcome, and isActive is cleared once per session: the
\* page has cleared it as many times as it has started sessions, less the one
\* that is running.
C4_FlagSetThenClearedOnce ==
    /\ []FlagClearedOncePerSession
    /\ \A u \in Users :
          (page[u].isActive /\ page[u].mode \in {"sequence", "mash"}) ~> ~page[u].isActive

\* A page has ended a sequence session and a mash session, and cleared isActive
\* at the end of each.
C4_Witness ==
    \E u \in Users :
        LET c == page[u]
        IN  /\ ~c.isActive /\ c.sessions = 2 /\ c.clears = 2
            /\ Reports(c, "sequence") # {} /\ Reports(c, "mash") # {}

\* C5: a sequence step is resolved at most once: results never holds more than
\* currentIndex + 1 entries, and once the step in hand has its entry neither the
\* key listener nor the step timeout of the sequence engine is left.
C5_StepResolvedOnce ==
    \A u \in Users :
        LET c == page[u]
        IN  /\ Len(c.results) <= c.currentIndex + 1
            /\ Len(c.results) <= Len(c.sequence)
            /\ Len(c.results) = c.currentIndex + 1 =>
                   /\ ListenersOf(c, {"sequence"}) = {}
                   /\ TimersOf(c, {"stepTimeout"}) = {}

\* The first step was resolved by a key press at the instant its timeout was due.
C5_Witness ==
    \E u \in Users :
        LET c == page[u]
        IN  /\ c.isActive /\ c.mode = "sequence" /\ c.currentIndex = 0
            /\ Len(c.results) = 1 /\ c.results[1].ratingText # "Timeout"
            /\ now = c.startTime + c.sequence[1].duration

\* The reports of the mash sessions of a page.
MashReportsOf(c, n) == { i \in Reports(c, "mash") : c.chat[i].session = n }

MashDecided(c) == c.isActive /\ c.mode = "mash" /\ MashReportsOf(c, c.sessions) # {}

MashReportedOnce ==
    \A u \in Users :
        LET c == page[u]
        IN  /\ \A n \in 1 .. c.sessions : Cardinality(MashReportsOf(c, n)) <= 1
            /\ (c.mode = "mash" /\ ~c.isActive) =>
                   Cardinality(MashReportsOf(c, c.sessions)) = 1
            /\ MashDecided(c) =>
                   /\ c.frames = <<>> /\ ListenersOf(c, {"mash"}) = {}
                   /\ Cardinality(TimersOf(c, {"mashResult", "mashClear"})) = 1

\* C6: a mash session is resolved at most once: a page never holds two mash
\* reports of one session, a mash session that is over has its report, and once
\* a session has its report no frame callback and no key press changes
\* mashProgress.
C6_MashResolvedOnce ==
    /\ []MashReportedOnce
    /\ [][\A u \in Users :
            MashDecided(page[u]) => page'[u].mashProgress = page[u].mashProgress]_vars

\* A mash session was lost at a frame callback that ran at the instant of a key
\* press, and the page is tearing it down.
C6_Witness ==
    \E u \in Users :
        LET c == page[u]
        IN  /\ MashDecided(c)
            /\ ~c.chat[Len(c.chat)].success
            /\ c.chat[Len(c.chat)].at = c.lastFrameTime
            /\ c.mashProgress > InitialProgress * Scale
            /\ TimersOf(c, {"mashClear"}) # {}

\* The tier of a press that is diff (in 1/HitScale ms) off the hit time.
TierOf(diff, windowSize) ==
    IF 10 * diff <= 2 * windowSize * HitScale THEN "Perfect"
    ELSE IF 2 * diff <= windowSize * HitScale THEN "Good"
    ELSE "Miss-timing"

\* C7: a press of the target key is judged by diff = |elapsed - hitTime| against
\* halfWindow = windowSize / 2 and perfectWindow = halfWindow * 0.4:
\* diff <= perfectWindow is Perfect, perfectWindow < diff <= halfWindow is Good,
\* diff > halfWindow is Miss-timing, both bounds inclusive; with windowSize 300
\* the diffs 60, 61, 150 and 151 ms are Perfect, Good, Good and Miss-timing.
\* diff is in 1/HitScale ms, so 10 * diff <= 4 * halfWindow reads
\* 10 * diff <= 2 * windowSize * HitScale.
C7_TierByDiff ==
    \A u \in Users :
        LET c == page[u]
        IN  Len(c.results) = 1 /\ c.results[1].ratingText # "Wrong-input" =>
                LET r == c.results[1]
                    data == c.sequence[1]
                    diff == Abs((now - c.startTime) * HitScale - data.hitTime)
                IN  /\ r.diff = diff
                    /\ r.ratingText = TierOf(diff, data.windowSize)
                    /\ r.success = (r.ratingText # "Miss-timing")
                    /\ data.windowSize = 300 =>
                           /\ diff = 60 * HitScale => r.ratingText = "Perfect"
                           /\ diff = 61 * HitScale => r.ratingText = "Good"
                           /\ diff = 150 * HitScale => r.ratingText = "Good"
                           /\ diff = 151 * HitScale => r.ratingText = "Miss-timing"

\* With windowSize 300 the target key was pressed 61 ms off the hit time.
C7_Witness ==
    LET c == page["p1"]
    IN  /\ Len(c.results) = 1
        /\ c.sequence[1].windowSize = 300
        /\ c.results[1].diff = 61 * HitScale
        /\ c.results[1].ratingText = "Good"

\* The verdict of a session by its counts.
VerdictOf(perfects, fails, total) ==
    IF 10 * fails > 3 * total THEN "Failed"
    ELSE IF fails = 0 /\ perfects = total THEN "Flawless"
    ELSE IF fails = 0 THEN "All Clear"
    ELSE "Cleared"

\* C8: the verdict of a sequence session with at least one step is Failed when
\* fails / total > 0.3; otherwise Flawless when there is no fail and every step
\* is Perfect, All Clear when there is no fail, and Cleared with some fail.
\* Exactly 30% passes: 3 fails of 10 is Cleared.  Of 5 steps, 2 Perfect, 2 Good
\* and 1 fail is Cleared, 5 Perfect is Flawless, and 2 fails is Failed.
C8_Verdict ==
    \A u \in Users : \A i \in Reports(page[u], "sequence") :
        LET m == page[u].chat[i]
            total == Len(m.rows)
        IN  total >= 1 =>
                /\ m.perfects = Cardinality({ k \in DOMAIN m.rows :
                                                m.rows[k].ratingText = "Perfect" })
                /\ m.fails = Cardinality({ k \in DOMAIN m.rows : ~m.rows[k].success })
                /\ m.perfects + m.goods + m.fails = total
                /\ m.verdict = VerdictOf(m.perfects, m.fails, total)
                /\ (total = 10 /\ m.fails = 3) => m.verdict = "Cleared"
                /\ (total = 5 /\ m.perfects = 2 /\ m.goods = 2) => m.verdict = "Cleared"
                /\ (total = 5 /\ m.perfects = 5) => m.verdict = "Flawless"
                /\ (total = 5 /\ m.fails = 2) => m.verdict = "Failed"

\* A session of 10 steps with 3 fails was reported Cleared.
C8_Witness ==
    \E i \in Reports(page["p1"], "sequence") :
        LET m == page["p1"].chat[i]
        IN  Len(m.rows) = 10 /\ m.fails = 3 /\ m.verdict = "Cleared"

\* C9: a sequence session with no prompt is reported Flawless.
C9_ZeroPromptsFlawless ==
    \A u \in Users : \A i \in Reports(page[u], "sequence") :
        Len(page[u].chat[i].rows) = 0 => page[u].chat[i].verdict = "Flawless"

\* A mash session that takes key presses, and one that was won at time t.
MashRunning(c) ==
    /\ c.isActive /\ c.mode = "mash"
    /\ ListenersOf(c, {"mash"}) # {} /\ ListenersOf(c, {"blocker"}) = {}

MashWonNow(c, t) ==
    /\ c.isActive /\ c.mode = "mash"
    /\ c.mashProgress = WinProgress * Scale
    /\ c.frames = <<>> /\ ListenersOf(c, {"mash"}) = {}
    /\ \E i \in MashReportsOf(c, c.sessions) :
           c.chat[i].success /\ c.chat[i].text = "Breakthrough" /\ c.chat[i].at = t

WonStaysWon ==
    \A u \in Users : \A i, j \in Reports(page[u], "mash") :
        LET m == page[u].chat
        IN  (m[i].session = m[j].session /\ m[i].success) => m[j].success

\* C10: in a running mash session a Space press that is no auto-repeat and takes
\* mashProgress to 100 or more (95 + 6 = 101, say) ends the session as a win in
\* that handler: the report is posted at the instant of the press and the frame
\* callback is cancelled; and a session reported won is never reported lost.
C10_PressWinsAtOnce ==
    /\ []WonStaysWon
    /\ [][\A u \in Users, e \in KeyEvents :
            ( /\ KeyDown(u, e)
              /\ MashRunning(page[u])
              /\ ~e.repeat /\ e.code = "Space"
              /\ page[u].mashProgress + page[u].mashPower * Scale >= WinProgress * Scale )
            => MashWonNow(page'[u], now)]_vars

\* With power 6 and decay 30 the page stood at 95 after eight presses and the
\* frame callback at 100 ms, and the ninth press, at that instant, won.
C10_Witness ==
    \E u \in Users :
        LET c == page[u]
        IN  /\ MashWonNow(c, 100)
            /\ c.mashPower = 6 /\ c.mashDecay = 30
            /\ c.mashEndTime = 1000 /\ c.lastFrameTime = 100

\* A key event that is a press of Space and no auto-repeat.
MashPress(e) == ~e.repeat /\ e.code = "Space"

\* C11: a mash session with power 10, decay 0 and a limit of 5 s starts at
\* progress 50 with its deadline 5 s ahead; while it runs its progress is 50 plus
\* 10 for each press so far, at most 90; a press at 50 moves it to 60 and the
\* press at 90, the fifth, wins at that instant, so a session that took eight
\* presses by the deadline is won by the deadline; and a session is lost only as
\* Time's up after the deadline.
PowerProgress ==
    \A u \in Users :
        LET c == page[u]
        IN  /\ MashRunning(c) =>
                   /\ c.mashPower = 10 /\ c.mashDecay = 0
                   /\ c.mashProgress \in { (InitialProgress + 10 * k) * Scale : k \in 0 .. 4 }
            /\ \A i \in Reports(c, "mash") :
                   /\ c.chat[i].success => c.chat[i].text = "Breakthrough"
                   /\ ~c.chat[i].success =>
                          c.chat[i].text = "Time's up" /\ c.chat[i].at > c.chat[i].deadline

C11_EightPressesWin ==
    /\ []PowerProgress
    /\ [][\A u \in Users :
            /\ (Deliver(u) /\ ~page[u].isActive /\ page'[u].isActive) =>
                   /\ MashRunning(page'[u])
                   /\ page'[u].mashProgress = 50 * Scale
                   /\ page'[u].mashEndTime = now + 5000
            /\ \A e \in KeyEvents :
                   (KeyDown(u, e) /\ MashRunning(page[u]) /\ MashPress(e)) =>
                       IF page[u].mashProgress = 90 * Scale
                       THEN MashWonNow(page'[u], now)
                       ELSE /\ MashRunning(page'[u])
                            /\ page'[u].mashProgress = page[u].mashProgress + 10 * Scale
                            /\ page[u].mashProgress = 50 * Scale =>
                                   page'[u].mashProgress = 60 * Scale]_vars

\* A session with power 10 and no decay was won by a press 400 ms after its
\* start, 4.6 s before its deadline.
C11_Witness ==
    \E u \in Users :
        LET c == page[u]
        IN  /\ MashWonNow(c, 400)
            /\ c.mashPower = 10 /\ c.mashDecay = 0
            /\ c.mashEndTime = 5000 /\ c.lastFrameTime = 400

\* The sequence step of page c is armed: its key listener is installed.
StepArmed(c) == ListenersOf(c, {"sequence"}) # {}

\* C12: an auto-repeated key event never alters run state: dispatched on a page
\* with an armed sequence step, a running mash session or neither, it leaves
\* every field of the page, its listeners, its timers and its reports as they
\* were, so any number of such events is the same as none.
C12_RepeatIgnored ==
    \A u \in Users : \A e \in KeyEvents :
        e.repeat => dispatchKeydown(page[u], e, now) = page[u]

\* A sequence step is armed for KeyA at an instant when a plain press of KeyA
\* would resolve it, and the auto-repeat of KeyA is at hand.
C12_Witness ==
    \E u \in Users :
        /\ StepArmed(page[u])
        /\ KeyEvent("KeyA", TRUE, "none") \in KeyEvents
        /\ dispatchKeydown(page[u], KeyEvent("KeyA", FALSE, "none"), now).results
              # page[u].results
        /\ page[u].sequence[page[u].currentIndex + 1].targetKey = "KeyA"

\* Every key with every modifier held, no auto-repeat.
ChordEvents == { KeyEvent(k, FALSE, m) : k \in KeyCodes, m \in Modifiers }

AllKeyEvents ==
    { KeyEvent(k, r, "none") : k \in KeyCodes, r \in BOOLEAN } \cup ChordEvents

\* The current step of a sequence session has its result and the next is not
\* yet armed.
StepHeld(c) ==
    c.isActive /\ c.mode = "sequence" /\ Len(c.results) = c.currentIndex + 1

\* C14: a key event that arrives while the step of a sequence session is held
\* after its result, while a mash session is torn down after its outcome, or
\* while no session is active, changes nothing of the page: no result, no
\* progress, no listener, no timer, no report.
C14_KeyOutsideRunIgnored ==
    \A u \in Users : \A e \in AllKeyEvents :
        (StepHeld(page[u]) \/ MashDecided(page[u]) \/ ~page[u].isActive) =>
            dispatchKeydown(page[u], e, now) = page[u]

\* The first step of a two-step session was resolved by a press, its hold is
\* pending and the second step is still to come.
C14_Witness ==
    \E u \in Users :
        LET c == page[u]
        IN  /\ StepHeld(c) /\ c.currentIndex = 0 /\ Len(c.sequence) = 2
            /\ c.results[1].success
            /\ TimersOf(c, {"hold"}) # {}

\* The challenge data was sent to chosen users.
Targeted(data) == Len(data.targetIds) > 0

\* The connected clients that have registered the handler.
Listening == { v \in connected : qteSocket[v] }

\* C15: every trigger on a ready transport makes exactly one transport call:
\* executeForUsers with exactly the given ids when targetIds is not empty,
\* executeForEveryone otherwise, and the challenge reaches the listening clients
\* among the ids, or every listening client; no challenge sent to chosen users
\* is ever in the inbox of another client, and a client starts a session only
\* from a challenge delivered to it, so after a targeted send only the clients
\* among the ids start a session from it.
C15_OneTransportCall ==
    /\ [](\A v \in Users : \A i \in DOMAIN inbox[v] :
            LET data == inbox[v][i].data
            IN  /\ \E k \in DOMAIN calls : calls[k].data = data
                /\ Targeted(data) => v \in Range(data.targetIds))
    /\ [][\A u \in Users : \A config \in pool : \A rand \in RandomDraws(config) :
            (Trigger(u, config, rand) /\ qteSocket[u]) =>
                LET merged == mergeObject(Defaults, config)
                    call == calls'[Len(calls')]
                    reach == IF Targeted(merged)
                             THEN Listening \cap Range(merged.targetIds)
                             ELSE Listening
                IN  /\ Len(calls') = Len(calls) + 1
                    /\ IF Targeted(merged)
                       THEN call.fn = "executeForUsers" /\ call.ids = merged.targetIds
                       ELSE call.fn = "executeForEveryone"
                    /\ \A v \in Users :
                           inbox'[v] = IF v \in reach
                                       THEN Append(inbox[v], [data |-> call.data,
                                                              due |-> now])
                                       ELSE inbox[v]]_vars
    /\ [][\A v \in Users :
            page'[v].sessions # page[v].sessions =>
                /\ Deliver(v)
                /\ Targeted(Head(inbox[v]).data) =>
                       v \in Range(Head(inbox[v]).data.targetIds)]_vars

\* With both clients listening, one call was made, to the player alone: the
\* player has started a session and the game master's client has received nothing.
C15_Witness ==
    /\ Listening = Users
    /\ Len(calls) = 1
    /\ calls[1].fn = "executeForUsers" /\ calls[1].ids = <<"p1">>
    /\ page["p1"].sessions = 1 /\ page["p1"].sequence = calls[1].data.sequence
    /\ page["gm"].sessions = 0 /\ inbox["gm"] = <<>>

\* C16: a trigger while qteSocket is unset shows one error notice to the caller
\* and does nothing else, whatever the configuration: no transport call, no info
\* notice, nothing sent to any client, no page changed; and while no call has
\* been made no client has received a challenge or started a session.
C16_NotReadyOnlyError ==
    /\ [](calls = <<>> =>
            \A v \in Users :
                /\ inbox[v] = <<>> /\ page[v].sessions = 0
                /\ \A i \in DOMAIN notices[v] : notices[v][i].type = "error")
    /\ [][\A u \in Users : \A config \in pool : \A rand \in RandomDraws(config) :
            (Trigger(u, config, rand) /\ ~qteSocket[u]) =>
                /\ notices' = [notices EXCEPT ![u] = Append(@, [type |-> "error"])]
                /\ calls' = calls /\ inbox' = inbox /\ page' = page]_vars

\* Both triggers were made before the transport was ready, and the client has
\* become ready since: two error notices, no call, no session.
C16_Witness ==
    \E u \in Users :
        /\ triggers = 2 /\ qteSocket[u]
        /\ notices[u] = << [type |-> "error"], [type |-> "error"] >>
        /\ calls = <<>> /\ inbox[u] = <<>> /\ page[u] = PageInit

\* C17: the data trigger dispatches holds, for every field the configuration
\* leaves out, the default (mode sequence, count 3, duration 2500, windowSize
\* 300, mashDecay 30, mashDuration 10, mashPower 6, gmPlay true, title empty,
\* targetIds empty) and, for every field it supplies, the supplied value; the
\* sequence is generated from and the call is addressed by the merged values.
C17_DefaultsFilled ==
    [][\A u \in Users : \A config \in pool : \A rand \in GenDraws(config) :
         Trigger(u, config, rand) =>
             LET call == calls'[Len(calls')]
                 data == call.data
                 Given(f, default) ==
                     data[f] = IF f \in DOMAIN config THEN config[f] ELSE default
             IN  /\ Len(calls') = Len(calls) + 1
                 /\ Given("mode", "sequence") /\ Given("count", 3)
                 /\ Given("duration", 2500) /\ Given("windowSize", 300)
                 /\ Given("mashDecay", 30) /\ Given("mashDuration", 10)
                 /\ Given("mashPower", 6) /\ Given("gmPlay", TRUE)
                 /\ Given("title", "") /\ Given("targetIds", <<>>)
                 /\ \A f \in DOMAIN config : data[f] = config[f]
                 /\ data.mode = "sequence" =>
                        /\ Len(data.sequence) = data.count
                        /\ \A i \in DOMAIN data.sequence :
                               /\ data.sequence[i].duration = data.duration
                               /\ data.sequence[i].windowSize = data.windowSize
                 /\ call.ids = data.targetIds]_vars

\* A call from a configuration that supplies the duration alone: three prompts
\* of that duration and the default window, broadcast.
C17_Witness ==
    /\ Len(calls) = 1
    /\ calls[1].fn = "executeForEveryone"
    /\ calls[1].data.duration = FullConfig.duration
    /\ calls[1].data.count = 3 /\ Len(calls[1].data.sequence) = 3
    /\ calls[1].data.sequence[3].duration = FullConfig.duration
    /\ calls[1].data.sequence[3].windowSize = 300
    /\ calls[1].data.title = "" /\ calls[1].data.gmPlay

\* The calls that carry a generated sequence.
SequenceCalls == { k \in DOMAIN calls : calls[k].data.mode = "sequence" }

\* C18: for every step count from 0 up, the sequence trigger generates has
\* exactly count prompts, the i-th of them (from 0) with id i; for count 0 it is
\* the empty sequence.
C18_CountPrompts ==
    \A k \in SequenceCalls :
        LET data == calls[k].data
        IN  /\ data.count \in Nat
            /\ DOMAIN data.sequence = 1 .. data.count
            /\ \A i \in 1 .. data.count : data.sequence[i].id = i - 1
            /\ data.count = 0 => data.sequence = <<>>

\* A call with four prompts, numbered 0 to 3.
C18_Witness ==
    \E k \in SequenceCalls :
        /\ calls[k].data.count = 4
        /\ [i \in 1 .. 4 |-> calls[k].data.sequence[i].id] = <<0, 1, 2, 3>>

\* C19: every generated prompt's hitTime lies between 0.30 and 0.70 times the
\* step duration, both inclusive, for every value Math.random() returns, and its
\* duration and windowSize are the configured ones.  hitTime is in 1/HitScale ms.
C19_HitTimeInBand ==
    \A k \in SequenceCalls :
        LET data == calls[k].data
        IN  \A i \in DOMAIN data.sequence :
                LET prompt == data.sequence[i]
                IN  /\ 10 * prompt.hitTime >= 3 * data.duration * HitScale
                    /\ 10 * prompt.hitTime <= 7 * data.duration * HitScale
                    /\ prompt.duration = data.duration
                    /\ prompt.windowSize = data.windowSize

\* A prompt of a 7 ms step, drawn with Math.random() = 0, sits on the lower
\* edge of the band, and the next one lies inside it.
C19_Witness ==
    \E k \in SequenceCalls :
        LET data == calls[k].data
        IN  /\ data.duration = 7 /\ data.count >= 2
            /\ 10 * data.sequence[1].hitTime = 3 * 7 * HitScale
            /\ 10 * data.sequence[2].hitTime > 3 * 7 * HitScale

\* On every page that has run a sequence session: the sequence is that of a
\* call made, the armed step is the prompt at currentIndex, and the results so
\* far are those of the prompts before it, in order.
RunsDispatchedSequence ==
    \A v \in Users :
        LET c == page[v]
        IN  (c.sessions > 0 /\ c.mode = "sequence") =>
                /\ \E k \in SequenceCalls : c.sequence = calls[k].data.sequence
                /\ \A i \in ListenersOf(c, {"sequence"}) :
                       c.listeners[i].data = c.sequence[c.currentIndex + 1]
                /\ Len(c.results) <= Len(c.sequence)
                /\ \A i \in DOMAIN c.results : c.results[i].key = c.sequence[i].keyDisplay

\* C20: one call of trigger generates one sequence and sends the same data to
\* every client it reaches; a client that starts a sequence session takes the
\* delivered sequence as it is and never changes it while the session lasts, so
\* all clients that start from one dispatch run the same prompts in the same
\* order.
C20_SequenceVerbatim ==
    /\ []RunsDispatchedSequence
    /\ [][\A u \in Users : \A config \in pool : \A rand \in RandomDraws(config) :
            Trigger(u, config, rand) =>
                /\ Len(calls') <= Len(calls) + 1
                /\ \A v \in Users : \A i \in DOMAIN inbox'[v] :
                       i > Len(inbox[v]) =>
                           inbox'[v][i].data = calls'[Len(calls')].data]_vars
    /\ [][\A v \in Users :
            IF page'[v].sessions # page[v].sessions
            THEN /\ Deliver(v)
                 /\ Head(inbox[v]).data.mode = "sequence" =>
                        page'[v].sequence = Head(inbox[v]).data.sequence
            ELSE page'[v].sequence = page[v].sequence]_vars

\* One broadcast reached both clients and both have finished its one prompt:
\* each page holds the sequence of the call and a result for its key.
C20_Witness ==
    /\ Len(calls) = 1 /\ calls[1].fn = "executeForEveryone"
    /\ Len(calls[1].data.sequence) = 1
    /\ \A v \in Users :
           /\ page[v].sessions = 1
           /\ page[v].sequence = calls[1].data.sequence
           /\ Len(page[v].results) = 1
           /\ page[v].results[1].key = calls[1].data.sequence[1].keyDisplay

\* The number of times id occurs in the sequence ids.
Occurrences(ids, id) == Cardinality({ i \in DOMAIN ids : ids[i] = id })

\* C21: when the form is submitted with a non-empty selection of targets and
\* gmPlay set, the targetIds passed to trigger are the selection and the
\* submitting game master's id, that id exactly once whether or not it was
\* selected; with gmPlay clear or nothing selected the targetIds are the
\* selection as it is.  No id occurs twice.
C21_GmAddedOnce ==
    [][\A u \in Users : \A data \in Forms : \A rand \in GenDraws(formHandler(data, u)) :
         Submit(u, data, rand) =>
             LET ids == calls'[Len(calls')].data.targetIds
                 selection == { id \in Users : data.targets[id] }
             IN  /\ Len(calls') = Len(calls) + 1
                 /\ \A id \in Users : Occurrences(ids, id) <= 1
                 /\ IF selection # {} /\ data.gmPlay
                    THEN Range(ids) = selection \cup {u} /\ Occurrences(ids, u) = 1
                    ELSE Range(ids) = selection]_vars

\* The game master ticked both boxes, the own one too, with gmPlay set: the
\* call goes to the two ids, each once.
C21_Witness ==
    /\ Len(calls) = 1
    /\ calls[1].fn = "executeForUsers"
    /\ calls[1].ids = << "gm", "p1" >>
    /\ calls[1].data.gmPlay

\* A step of client u's event loop: a delivered challenge, a key event, or one
\* of its timer or frame callbacks.
ClientStep(u) ==
    \/ Deliver(u)
    \/ \E e \in KeyEvents : KeyDown(u, e)
    \/ StepTimeout(u) \/ HoldDone(u) \/ AdvanceDone(u)
    \/ Frame(u) \/ Unblock(u) \/ MashResultDone(u) \/ MashClear(u)

StepResolved(c, d) ==
    Len(d.results) = Len(c.results) + 1 /\ SubSeq(d.results, 1, Len(c.results)) = c.results

\* Between pages c and d a mash session posted its outcome.
MashResolved(c, d) == Cardinality(Reports(d, "mash")) = Cardinality(Reports(c, "mash")) + 1

\* No engine key listener is installed on page c and no step timeout or frame
\* callback is pending.
EngineQuiet(c) ==
    /\ ListenersOf(c, {"sequence", "mash"}) = {}
    /\ TimersOf(c, {"stepTimeout"}) = {}
    /\ c.frames = <<>>

\* C23: whenever a sequence step gets its result (Perfect, Good, Miss-timing,
\* Wrong-input or Timeout) or a mash session its outcome (Breakthrough,
\* Suppressed or Time's up), the state right after it has no engine key
\* listener installed and no step timeout or frame callback pending.
C23_QuietAfterResolution ==
    [][\A u \in Users :
         (StepResolved(page[u], page'[u]) \/ MashResolved(page[u], page'[u])) =>
             EngineQuiet(page'[u])]_vars

\* A step has just been resolved as Timeout and the page is quiet, its hold
\* timer pending.
C23_Witness ==
    \E u \in Users :
        LET c == page[u]
        IN  /\ StepHeld(c) /\ EngineQuiet(c)
            /\ c.results[Len(c.results)].ratingText = "Timeout"
            /\ \E i \in TimersOf(c, {"hold"}) : c.timers[i].due = now + HoldDelay

\* C24: on every page whose isActive is clear the teardown of the last session
\* is complete: no overlay exists, no key listener is installed (neither an
\* engine's nor the blocker of endMash), and no timer or frame callback is
\* pending (no step timeout, hold, advance, unblock, result or clear callback).
C24_ClearMeansTornDown ==
    \A u \in Users :
        ~page[u].isActive =>
            /\ page[u].overlays = 0
            /\ page[u].listeners = <<>>
            /\ page[u].timers = <<>>
            /\ page[u].frames = <<>>

\* A mash session has ended and its flag is clear again: the report is posted
\* and nothing of the session is left.
C24_Witness ==
    \E u \in Users :
        LET c == page[u]
        IN  /\ ~c.isActive /\ c.mode = "mash" /\ c.sessions = 1
            /\ Reports(c, "mash") # {}
            /\ c.overlays = 0 /\ c.listeners = <<>> /\ c.timers = <<>>

\* C25: clearing isActive is the last action of a session's completion: every
\* report of a session, of either engine, was posted while isActive was still
\* set.
C25_ReportBeforeClear ==
    \A u \in Users : \A i \in DOMAIN page[u].chat : page[u].chat[i].active

\* A key event that is no auto-repeat and has no modifier held.
PlainPress(e) == ~e.repeat /\ ~e.ctrlKey /\ ~e.altKey /\ ~e.metaKey /\ ~e.shiftKey

\* C26: in an armed sequence step a plain press of a key other than the
\* prompt's resolves the step in that handler as a failure with tier
\* Wrong-input and diff 0, at every elapsed time, inside the judgement window
\* too: the result is appended, the listener and the timeout are gone and the
\* hold starts at once.
C26_WrongKeyFailsAtOnce ==
    [][\A u \in Users : \A e \in KeyEvents :
         LET c == page[u]
             d == page'[u]
         IN  (KeyDown(u, e) /\ StepArmed(c) /\ PlainPress(e)
                 /\ e.code # c.sequence[c.currentIndex + 1].targetKey) =>
                 /\ d.results = Append(c.results,
                                       [key |-> c.sequence[c.currentIndex + 1].keyDisplay,
                                        success |-> FALSE, ratingText |-> "Wrong-input",
                                        ratingClass |-> "result-bad", diff |-> 0])
                 /\ EngineQuiet(d)
                 /\ \E i \in TimersOf(d, {"hold"}) : d.timers[i].due = now + HoldDelay]_vars

\* The wrong key was pressed exactly at the prompt's hit time: Wrong-input
\* with diff 0.
C26_Witness ==
    \E u \in Users :
        LET c == page[u]
        IN  /\ Len(c.results) = 1 /\ Len(c.sequence) = 1
            /\ now * HitScale = c.sequence[1].hitTime
            /\ c.results[1].ratingText = "Wrong-input"
            /\ c.results[1].diff = 0 /\ ~c.results[1].success

\* While a step is armed its one timeout is pending, due a step duration after
\* the step was armed.
TimeoutStands ==
    \A u \in Users :
        LET c == page[u]
        IN  StepArmed(c) =>
                /\ Cardinality(TimersOf(c, {"stepTimeout"})) = 1
                /\ \A i \in TimersOf(c, {"stepTimeout"}) :
                       /\ c.timers[i].id = c.timeoutId
                       /\ c.timers[i].due = c.startTime + c.sequence[c.currentIndex + 1].duration

LastSequenceReports(c) ==
    { i \in Reports(c, "sequence") : c.chat[i].session = c.sessions }

\* On a page whose last session is a sequence session: the step at
\* currentIndex is armed with the results of the steps before it, or held
\* with its own result too, or the session is finished with one result per
\* prompt and reported.
SequenceInStep ==
    \A u \in Users :
        LET c == page[u]
            n == Len(c.sequence)
        IN  (c.sessions > 0 /\ c.mode = "sequence") =>
                /\ c.currentIndex \in 0 .. n
                /\ \A i \in DOMAIN c.results : c.results[i].key = c.sequence[i].keyDisplay
                /\ IF c.isActive
                   THEN /\ c.currentIndex < n
                        /\ LastSequenceReports(c) = {}
                        /\ IF StepArmed(c)
                           THEN /\ Len(c.results) = c.currentIndex
                                /\ \A i \in ListenersOf(c, {"sequence"}) :
                                       c.listeners[i].data = c.sequence[c.currentIndex + 1]
                           ELSE StepHeld(c)
                   ELSE /\ c.currentIndex = n /\ Len(c.results) = n
                        /\ Cardinality(LastSequenceReports(c)) = 1
                        /\ \A i \in LastSequenceReports(c) : c.chat[i].rows = c.results

\* C28: an accepted sequence session of n prompts arms its steps in the order
\* of their index from 0, each armed step is followed by its held result and
\* currentIndex grows by exactly one after each held step, by the advance
\* callback; the session eventually finishes, and when it has finished,
\* results holds exactly n results, the i-th with the display symbol of the
\* i-th prompt, and these are the rows of its report.
C28_StepsInOrder ==
    /\ \A u \in Users :
           (page[u].isActive /\ page[u].mode = "sequence") ~> ~page[u].isActive
    /\ []SequenceInStep
    /\ [][\A u \in Users :
            LET c == page[u]
                d == page'[u]
            IN  d.currentIndex # c.currentIndex =>
                    \/ /\ Deliver(u) /\ d.sessions = c.sessions + 1 /\ d.currentIndex = 0
                    \/ /\ AdvanceDone(u) /\ StepHeld(c) /\ d.sessions = c.sessions
                       /\ d.currentIndex = c.currentIndex + 1
                       /\ d.results = c.results]_vars

\* A session of two prompts has finished: the first step was won with a press,
\* the second ran into its timeout, and the report lists both.
C28_Witness ==
    \E u \in Users :
        LET c == page[u]
        IN  /\ ~c.isActive /\ c.mode = "sequence" /\ Len(c.sequence) = 2
            /\ c.currentIndex = 2 /\ Len(c.results) = 2
            /\ c.results[1].success /\ c.results[2].ratingText = "Timeout"
            /\ \E i \in LastSequenceReports(c) : c.chat[i].rows = c.results

\* C29: a sequence challenge without prompts that a client accepts is over
\* within the handling of startSession: when startSession returns, isActive is
\* clear again, no step is armed, no key listener, timer or overlay has been
\* installed, and exactly one report, without rows, has been posted.
C29_ZeroPromptsAtOnce ==
    [][\A u \in Users :
         LET c == page[u]
             d == page'[u]
         IN  (Deliver(u) /\ d.sessions = c.sessions + 1
                 /\ Head(inbox[u]).data.mode = "sequence"
                 /\ Head(inbox[u]).data.sequence = <<>>) =>
                 /\ ~d.isActive /\ ~StepArmed(d)
                 /\ d.listeners = c.listeners /\ d.timers = c.timers
                 /\ d.frames = c.frames /\ d.overlays = c.overlays
                 /\ Len(d.chat) = Len(c.chat) + 1
                 /\ SubSeq(d.chat, 1, Len(c.chat)) = c.chat
                 /\ d.chat[Len(d.chat)].kind = "sequence"
                 /\ d.chat[Len(d.chat)].rows = <<>>
                 /\ d.chat[Len(d.chat)].session = d.sessions]_vars

\* A client has accepted a challenge without prompts as its first session, at
\* time 0: the one report is posted and the page is idle.
C29_Witness ==
    \E u \in Users :
        LET c == page[u]
        IN  /\ now = 0 /\ c.sessions = 1 /\ ~c.isActive
            /\ c.mode = "sequence" /\ c.sequence = <<>>
            /\ Len(c.chat) = 1 /\ c.chat[1].rows = <<>>
            /\ c.listeners = <<>> /\ c.timers = <<>>

\* Between pages c and d the mash session ended at time t with this outcome,
\* its progress left at raw.
MashEndedWith(c, d, success, text, raw, t) ==
    /\ Len(d.chat) = Len(c.chat) + 1
    /\ d.chat[Len(d.chat)].kind = "mash"
    /\ d.chat[Len(d.chat)].success = success
    /\ d.chat[Len(d.chat)].text = text
    /\ d.chat[Len(d.chat)].at = t
    /\ d.mashProgress = raw
    /\ d.frames = <<>> /\ ListenersOf(d, {"mash"}) = {}

\* C30: a frame callback of a running mash session subtracts the decay of the
\* elapsed time from the progress, without clamping, and then decides in this
\* order: progress <= 0 is the loss Suppressed; else progress >= 100 is the
\* win Breakthrough; else now > deadline is the loss Time's up; else the
\* session goes on with the next frame callback.  So a frame at which the bar
\* is empty and the deadline has passed is Suppressed, and a frame at the
\* deadline exactly, as the one startMash runs when the limit is 0, does not
\* end the session.
C30_TickOrder ==
    [][\A u \in Users :
         LET c == page[u]
             d == page'[u]
             raw == c.mashProgress - c.mashDecay * (now - c.lastFrameTime)
         IN  /\ (Frame(u) /\ c.isActive /\ c.mode = "mash") =>
                    IF raw <= 0
                    THEN MashEndedWith(c, d, FALSE, "Suppressed", raw, now)
                    ELSE IF raw >= WinProgress * Scale
                         THEN MashEndedWith(c, d, TRUE, "Breakthrough", raw, now)
                         ELSE IF now > c.mashEndTime
                              THEN MashEndedWith(c, d, FALSE, "Time's up", raw, now)
                              ELSE /\ MashRunning(d) /\ d.chat = c.chat
                                   /\ d.mashProgress = raw
                                   /\ Len(d.frames) = 1
                                   /\ d.lastFrameTime = now
             /\ (Deliver(u) /\ d.sessions = c.sessions + 1 /\ d.mode = "mash") =>
                    /\ MashRunning(d) /\ d.chat = c.chat
                    /\ d.mashProgress = InitialProgress * Scale
                    /\ Len(d.frames) = 1
                    /\ now <= d.mashEndTime]_vars

\* A frame found the bar empty after the deadline had passed: the session was
\* reported Suppressed.
C30_Witness ==
    \E u \in Users :
        LET c == page[u]
        IN  /\ c.mashProgress <= 0
            /\ \E i \in MashReportsOf(c, c.sessions) :
                   /\ c.chat[i].text = "Suppressed"
                   /\ c.chat[i].at > c.chat[i].deadline

\* The three outcomes of a mash session, and the mash sessions a page accepted.
MashOutcomes ==
    { [success |-> FALSE, text |-> "Suppressed"],
      [success |-> TRUE, text |-> "Breakthrough"],
      [success |-> FALSE, text |-> "Time's up"] }

MashAccepted(c) == c.isActive /\ c.mode = "mash"

\* Every mash report carries one of the three outcomes, no session has two,
\* and a mash session that is over has its report.
OneOutcome ==
    \A u \in Users :
        LET c == page[u]
        IN  /\ \A i \in Reports(c, "mash") :
                   [success |-> c.chat[i].success, text |-> c.chat[i].text] \in MashOutcomes
            /\ \A n \in 1 .. c.sessions : Cardinality(MashReportsOf(c, n)) <= 1
            /\ (c.mode = "mash" /\ ~c.isActive) =>
                   Cardinality(MashReportsOf(c, c.sessions)) = 1

\* C31: every accepted mash session is eventually reported, with exactly one
\* of the outcomes Suppressed, Breakthrough and Time's up, and eventually
\* over, whatever keys are pressed, with a decay of 30 and of 0; a frame
\* callback that runs after the deadline reports it at the latest; and only
\* the teardown of a reported session ends it.
C31_MashResolves ==
    /\ \A u \in Users :
           MashAccepted(page[u]) ~> MashDecided(page[u])
    /\ \A u \in Users :
           MashAccepted(page[u]) ~> ~page[u].isActive
    /\ []OneOutcome
    /\ [][\A u \in Users :
            LET c == page[u]
                d == page'[u]
            IN  /\ (Frame(u) /\ MashAccepted(c) /\ now > c.mashEndTime) => MashDecided(d)
                /\ (MashAccepted(c) /\ ~d.isActive) => (MashDecided(c) /\ MashClear(u))]_vars

\* With a bar that stands still the player pressed Space and other keys, too
\* seldom to win, and the first frame after the deadline reported Time's up.
C31_Witness ==
    \E u \in Users :
        LET c == page[u]
        IN  /\ c.mode = "mash" /\ c.mashDecay = 0
            /\ c.mashProgress > InitialProgress * Scale
            /\ \E i \in MashReportsOf(c, c.sessions) :
                   /\ c.chat[i].text = "Time's up"
                   /\ c.chat[i].at = c.chat[i].deadline + Quantum

\* C32: no mash session is reported won at a time later than its deadline,
\* mashEndTime = start + mashDuration * 1000, be it by a frame callback or by
\* a Space press that comes after the deadline and before the next frame
\* callback.
C32_WonBeforeDeadline ==
    \A u \in Users : \A i \in Reports(page[u], "mash") :
        page[u].chat[i].success => page[u].chat[i].at <= page[u].chat[i].deadline

\* endMash left page d with no frame callback and no mash key listener, with
\* its one blocker, and with the timeout that removes it BlockDelay after t.
Suppressing(d, t) ==
    /\ d.frames = <<>> /\ ListenersOf(d, {"mash"}) = {}
    /\ Cardinality(ListenersOf(d, {"blocker"})) = 1
    /\ \A i \in ListenersOf(d, {"blocker"}) :
           \E j \in TimersOf(d, {"unblock"}) :
               d.timers[j].ref = d.listeners[i].id /\ d.timers[j].due = t + BlockDelay

\* A page holds at most one blocker, only in a mash session that has its
\* report and is not over, and together with the timeout that removes it
\* BlockDelay after the report; while it is installed no key event does
\* anything on the page.
SuppressorWithinSession ==
    \A u \in Users :
        LET c == page[u]
        IN  /\ Cardinality(ListenersOf(c, {"blocker"})) <= 1
            /\ Cardinality(TimersOf(c, {"unblock"})) = Cardinality(ListenersOf(c, {"blocker"}))
            /\ ListenersOf(c, {"blocker"}) # {} =>
                   /\ MashDecided(c)
                   /\ \A i \in MashReportsOf(c, c.sessions) : Suppressing(c, c.chat[i].at)
                   /\ \A e \in AllKeyEvents : dispatchKeydown(c, e, now) = c

\* C33: whatever ends a mash session (either loss, the win at a frame, the
\* win at a press), the page is left without frame callback and mash key
\* listener and with one blocker that swallows every key event; the blocker
\* is removed by a timeout due 1.5 s after the end, which runs while isActive
\* is still set and before the timeout that clears isActive; so a page never
\* holds two blockers and never one outside a session.
C33_SuppressorCoolDown ==
    /\ []SuppressorWithinSession
    /\ [][\A u \in Users :
            LET c == page[u]
                d == page'[u]
            IN  /\ MashResolved(c, d) => Suppressing(d, now)
                /\ Unblock(u) =>
                       /\ ListenersOf(c, {"blocker"}) # {} /\ ListenersOf(d, {"blocker"}) = {}
                       /\ d.isActive /\ TimersOf(d, {"mashResult", "mashClear"}) # {}
                /\ MashClear(u) => ListenersOf(c, {"blocker"}) = {}]_vars

\* A session that ran out of time: its blocker is gone again, and the timeout
\* that will clear isActive is still pending.
C33_Witness ==
    \E u \in Users :
        LET c == page[u]
        IN  /\ MashDecided(c)
            /\ ListenersOf(c, {"blocker"}) = {} /\ TimersOf(c, {"unblock"}) = {}
            /\ TimersOf(c, {"mashClear"}) # {}
            /\ \E i \in MashReportsOf(c, c.sessions) :
                   c.chat[i].text = "Time's up" /\ now >= c.chat[i].at + BlockDelay

\* The configuration that differs from config in gmPlay alone.
FlipGmPlay(config) ==
    mergeObject(config, [gmPlay |-> ~mergeObject(Defaults, config).gmPlay])

\* C34: trigger does not act on gmPlay: called with a configuration and with
\* the one that differs in gmPlay alone, in the same state and with the same
\* random values, it shows the same notices and makes the same transport call,
\* executeForEveryone or executeForUsers with the same ids, to the same
\* clients, with payloads that differ in the field gmPlay alone; the game
\* master's client receives the challenge whatever gmPlay says; and it is
\* startSession on the game master's client that drops a challenge whose
\* gmPlay is false, while a player's client starts its session.
C34_DispatcherIgnoresGmPlay ==
    /\ [][\A u \in Users : \A config \in pool : \A rand \in RandomDraws(config) :
            Trigger(u, config, rand) =>
                LET a == trigger(qteSocket[u], config, rand)
                    b == trigger(qteSocket[u], FlipGmPlay(config), rand)
                IN  /\ FlipGmPlay(config) \in pool
                    /\ a.notices = b.notices
                    /\ Len(a.calls) = Len(b.calls)
                    /\ calls' = calls \o a.calls
                    /\ \A k \in DOMAIN a.calls :
                           /\ a.calls[k].fn = b.calls[k].fn
                           /\ a.calls[k].ids = b.calls[k].ids
                           /\ Recipients(a.calls[k]) = Recipients(b.calls[k])
                           /\ a.calls[k].data.gmPlay = mergeObject(Defaults, config).gmPlay
                           /\ b.calls[k].data = [a.calls[k].data EXCEPT !.gmPlay = ~@]
                           /\ \A v \in Users :
                                  inbox'[v] = IF v \in Recipients(a.calls[k])
                                              THEN Append(inbox[v], [data |-> a.calls[k].data,
                                                                     due |-> now])
                                              ELSE inbox[v]]_vars
    /\ [][\A u \in Users :
            (Deliver(u) /\ ~Head(inbox[u]).data.gmPlay) =>
                IF isGM(u)
                THEN page' = page
                ELSE page[u].isActive \/ page'[u].sessions = page[u].sessions + 1]_vars

\* A challenge with gmPlay false was sent to everyone: the game master's
\* client received and dropped it, the player's client runs it.
C34_Witness ==
    /\ Len(calls) = 1
    /\ calls[1].fn = "executeForEveryone" /\ ~calls[1].data.gmPlay
    /\ inbox["gm"] = <<>> /\ page["gm"] = PageInit
    /\ page["p1"].sessions = 1 /\ page["p1"].isActive
    /\ now > 0

\* The challenges startSession rejects on page c.
Rejected(c, data, gm) == c.isActive \/ (gm /\ ~data.gmPlay)

\* A page has started no more sessions than challenges were sent to it and
\* have left its inbox.
NoSessionWithoutChallenge ==
    \A u \in Users :
        page[u].sessions + Len(inbox[u])
            <= Cardinality({ k \in DOMAIN calls : u \in Recipients(calls[k]) })

\* C35: a challenge that startSession rejects, because isActive is set or
\* because the client is the game master's and gmPlay is false, leaves the
\* inbox and changes nothing on the page, which has no place to keep it; a
\* page starts a session only in the step that delivers a challenge it
\* accepts, and then it is the session of that challenge; in particular the
\* step that clears isActive starts none; and a challenge enters an inbox
\* only when trigger sends it.
C35_RejectedIsDropped ==
    /\ []NoSessionWithoutChallenge
    /\ [][\A u \in Users :
            LET c == page[u]
                d == page'[u]
            IN  /\ (Deliver(u) /\ Rejected(c, Head(inbox[u]).data, isGM(u))) =>
                       d = c /\ inbox'[u] = Tail(inbox[u])
                /\ d.sessions # c.sessions =>
                       /\ Deliver(u) /\ ~Rejected(c, Head(inbox[u]).data, isGM(u))
                       /\ d.sessions = c.sessions + 1
                       /\ d.mode = Head(inbox[u]).data.mode
                       /\ d.title = Head(inbox[u]).data.title
                /\ (c.isActive /\ ~d.isActive) =>
                       /\ d.sessions = c.sessions /\ inbox'[u] = inbox[u]
                       /\ d.listeners = <<>> /\ d.frames = <<>>
                /\ inbox'[u] # inbox[u] =>
                       \/ Deliver(u)
                       \/ /\ Len(calls') = Len(calls) + 1
                          /\ inbox'[u] = Append(inbox[u], [data |-> calls'[Len(calls')].data,
                                                           due |-> now])]_vars

\* The player's client was sent two challenges, the second while the first,
\* "Duel", was running: the session is over and reported, nothing is pending,
\* and "Duel" is the one session the page has started.
C35_Witness ==
    LET c == page["p1"]
    IN  /\ Len(calls) = 2 /\ inbox["p1"] = <<>>
        /\ calls[1].data.title = "Duel" /\ calls[2].data.title # "Duel"
        /\ { k \in DOMAIN calls : "p1" \in Recipients(calls[k]) } = {1, 2}
        /\ c.sessions = 1 /\ ~c.isActive /\ c.title = "Duel"
        /\ c.timers = <<>> /\ c.listeners = <<>> /\ c.frames = <<>>
        /\ Len(c.chat) = 1

\* A mash session between its start and the decision of its outcome.
MashUndecided(c) == MashAccepted(c) /\ ~MashDecided(c)

\* C36: in every state of a mash session that has started and has no outcome
\* yet, with mashPower > 0 and mashDecay >= 0, mashProgress is more than 0
\* and less than 100; a session starts at 50; and a frame callback or a key
\* press that takes mashProgress to 0 or less, or to 100 or more, leaves the
\* session with its outcome.
C36_ProgressInside ==
    /\ [](\A u \in Users :
            LET c == page[u]
            IN  (MashUndecided(c) /\ c.mashPower > 0 /\ c.mashDecay >= 0) =>
                    /\ 0 < c.mashProgress /\ c.mashProgress < WinProgress * Scale
                    /\ MashRunning(c) /\ Len(c.frames) = 1)
    /\ [][\A u \in Users :
            LET c == page[u]
                d == page'[u]
            IN  /\ (~MashAccepted(c) /\ MashAccepted(d)) =>
                       MashUndecided(d) /\ d.mashProgress = InitialProgress * Scale
                /\ ( /\ MashUndecided(c)
                     /\ d.mashProgress # c.mashProgress
                     /\ d.mashProgress <= 0 \/ d.mashProgress >= WinProgress * Scale ) =>
                       /\ MashDecided(d)
                       /\ Frame(u) \/ \E e \in KeyEvents : KeyDown(u, e)]_vars

\* With a decay of 100 a second the bar stood at 10 after 400 ms and at 0
\* after 500 ms, and that frame callback reported the loss.
C36_Witness ==
    \E u \in Users :
        LET c == page[u]
        IN  /\ MashDecided(c)
            /\ c.mashPower > 0 /\ c.mashDecay > 0
            /\ c.mashProgress = 0
            /\ c.lastFrameTime = now
            /\ \E i \in MashReportsOf(c, c.sessions) :
                   c.chat[i].text = "Suppressed" /\ c.chat[i].at = now

\* C37: on a page that has accepted a challenge whose mode is neither
\* "sequence" nor "mash", isActive is eventually clear again.
C37_UnknownModeUnblocks ==
    \A u \in Users :
        (page[u].isActive /\ page[u].mode \notin {"sequence", "mash"}) ~> ~page[u].isActive

\* The title a report of this kind shows for the recorded title.
ShownTitle(kind, title) ==
    IF title # "" THEN title
    ELSE IF kind = "mash" THEN "Mash challenge" ELSE "Challenge"

\* C38: the title of a page is written only in the step that delivers a
\* challenge the page accepts, and is then that challenge's title; a challenge
\* that is rejected leaves it alone; and every report is posted for the
\* running session with the title recorded for it (or the default of its
\* kind when that is empty): so the report of a session shows the title of
\* the challenge that started it, whatever challenges were rejected meanwhile.
C38_ReportTitle ==
    [][\A u \in Users :
         LET c == page[u]
             d == page'[u]
         IN  /\ (d.sessions # c.sessions \/ d.title # c.title) =>
                    /\ Deliver(u) /\ ~Rejected(c, Head(inbox[u]).data, isGM(u))
                    /\ d.sessions = c.sessions + 1
                    /\ d.title = Head(inbox[u]).data.title
             /\ (Deliver(u) /\ Rejected(c, Head(inbox[u]).data, isGM(u))) =>
                    d.title = c.title /\ d.chat = c.chat
             /\ d.chat # c.chat =>
                    /\ Len(d.chat) = Len(c.chat) + 1
                    /\ \A i \in DOMAIN c.chat : d.chat[i] = c.chat[i]
                    /\ d.chat[Len(d.chat)].session = d.sessions
                    /\ d.chat[Len(d.chat)].kind = d.mode
                    /\ d.chat[Len(d.chat)].title = ShownTitle(d.mode, d.title)]_vars

\* While "Duel" ran on the player's client the challenge "Push" arrived and
\* was rejected: the report of the session is titled "Duel".
C38_Witness ==
    LET c == page["p1"]
    IN  /\ Len(calls) = 2
        /\ calls[1].data.title = "Duel" /\ calls[2].data.title = "Push"
        /\ "p1" \in Recipients(calls[2]) /\ inbox["p1"] = <<>>
        /\ c.sessions = 1
        /\ Len(c.chat) = 1 /\ c.chat[1].title = "Duel" /\ c.chat[1].session = 1

====
